---- MODULE Spec2Model ----
(***************************************************************************)
(* Job queue, layout clipboard and manual track selection of               *)
(* Video-Sync-GUI (qt_ui), as a state machine.                             *)
(*                                                                         *)
(* QString values that the code converts or orders (job names, raw track   *)
(* type strings) are sequences of UTF-16 code units; QString values that   *)
(* the code only compares for equality are TLA+ strings.  Row numbers are  *)
(* 0-based as in the code; m_jobs[row + 1] is the job at row `row'.        *)
(***************************************************************************)
EXTENDS Integers, Sequences, FiniteSets, TLC

VARIABLES m_jobs, m_layoutClipboard, dlg, nConfigure, bridge, last, cap, batch

vars == <<m_jobs, m_layoutClipboard, dlg, nConfigure, bridge, last, cap, batch>>

\* ------------------------------------------------------------------ bounds

MaxJobs == 2

MaxTracks == 2

MaxConfigure == 1

MaxAdd == 2

\* ----------------------------------------------------------------- strings

\* QChar::toLower on the Latin capital letters.
ToLowerCh(c) == IF c >= 65 /\ c <= 90 THEN c + 32 ELSE c

\* QString::toLower.
ToLower(s) == [i \in 1..Len(s) |-> ToLowerCh(s[i])]

\* QChar::isSpace on the characters that occur: space, tab, line feed.
IsSpaceCh(c) == c \in {9, 10, 32}

RECURSIVE TrimLeft(_)
TrimLeft(s) ==
    IF s = <<>> THEN s
    ELSE IF IsSpaceCh(Head(s)) THEN TrimLeft(Tail(s)) ELSE s

RECURSIVE TrimRight(_)
TrimRight(s) ==
    IF s = <<>> THEN s
    ELSE IF IsSpaceCh(s[Len(s)]) THEN TrimRight(SubSeq(s, 1, Len(s) - 1)) ELSE s

\* QString::trimmed.
Trimmed(s) == TrimRight(TrimLeft(s))

\* operator<(QString, QString): lexicographic on code units.
RECURSIVE StrLess(_, _)
StrLess(a, b) ==
    IF b = <<>> THEN FALSE
    ELSE IF a = <<>> THEN TRUE
    ELSE IF Head(a) # Head(b) THEN Head(a) < Head(b)
    ELSE StrLess(Tail(a), Tail(b))

\* The string literals "video", "audio" and "subtitles" of the code, and the
\* capitalised "Video" an inspection service may report.
STR_video == <<118, 105, 100, 101, 111>>

STR_Video == <<86, 105, 100, 101, 111>>

STR_audio == <<97, 117, 100, 105, 111>>

STR_subtitles == <<115, 117, 98, 116, 105, 116, 108, 101, 115>>

\* -------------------------------------------------------------- data model

\* The keys of JobData::sources in std::map order.
SourceKeys == <<"Source 1", "Source 2">>

\* The keys of a std::map, in its iteration order.
RECURSIVE KeysFrom(_, _)
KeysFrom(keys, i) ==
    IF i > Len(SourceKeys) THEN <<>>
    ELSE IF SourceKeys[i] \in keys THEN <<SourceKeys[i]>> \o KeysFrom(keys, i + 1)
    ELSE KeysFrom(keys, i + 1)

OrderedKeys(keys) == KeysFrom(keys, 1)

STATUS_NEEDS == "Needs Configuration"

STATUS_CONFIGURED == "Configured"

\* QFileInfo(path).baseName() of a path kept as directory and base name.
BaseName(path) == path.base

\* A job as JobQueueDialog::onAddJobsClicked builds it from one discovered
\* source map.
NewJob(d) ==
    [ name |-> IF "Source 1" \in DOMAIN d THEN BaseName(d["Source 1"]) ELSE <<>>,
      sources |-> d,
      status |-> STATUS_NEEDS,
      trackLayout |-> <<>>,
      attachmentSources |-> <<>> ]

\* A path: the directory decides what the inspection service answers for the
\* file (see ScanFile), the base name is the job's name when the path is
\* "Source 1".
Path(dir, base) == [dir |-> dir, base |-> base]

\* The source maps AddJobDialog::findAndAccept produces, keys "Source 1" to
\* "Source k": a job "b" whose second source cannot be scanned, a job "a"
\* with two good sources, and a single-source job "A" whose scan finds no
\* track.  "a" and "A" are equal ignoring case.
MapB ==
    [k \in {"Source 1", "Source 2"} |->
        IF k = "Source 1" THEN Path("/good", <<98>>) ELSE Path("/corrupt", <<98, 50>>)]

MapA ==
    [k \in {"Source 1", "Source 2"} |->
        IF k = "Source 1" THEN Path("/good", <<97>>) ELSE Path("/good", <<97, 50>>)]

MapSingle == [k \in {"Source 1"} |-> Path("/void", <<65>>)]

DiscoveredMaps == {MapB, MapA, MapSingle}

JobInputs == { NewJob(d) : d \in DiscoveredMaps }

\* The vectors of at most n jobs handed to addJobs.
RECURSIVE JobVectors(_)
JobVectors(n) ==
    IF n = 0 THEN {<<>>}
    ELSE LET shorter == JobVectors(n - 1)
         IN  shorter \cup { Append(v, j) : v \in { w \in shorter : Len(w) = n - 1 },
                                           j \in JobInputs }

\* The rows a caller may pass: every row the queue can have, and with them
\* rows past its end.
RowInputs == 0..cap.jobs

\* A QList<int> sorted ascending (std::sort with the default order).
RECURSIVE SortAsc(_)
SortAsc(S) ==
    IF S = {} THEN <<>>
    ELSE LET m == CHOOSE x \in S : \A y \in S : x <= y
         IN  <<m>> \o SortAsc(S \ {m})

Reverse(s) == [i \in 1..Len(s) |-> s[Len(s) + 1 - i]]

\* std::swap(v[i], v[j]) on 0-based positions.
Swap(v, i, j) ==
    [k \in 1..Len(v) |-> IF k = i + 1 THEN v[j + 1] ELSE IF k = j + 1 THEN v[i + 1] ELSE v[k]]

\* std::vector::erase(begin() + row).
Erase(v, row) == SubSeq(v, 1, row) \o SubSeq(v, row + 2, Len(v))

\* ------------------------------------------------------------ JobQueueLogic

\* The comparator of addJobs.
NameLess(a, b) == StrLess(ToLower(a.name), ToLower(b.name))

Perms(n) == { p \in [1..n -> 1..n] : \A i, j \in 1..n : i # j => p[i] # p[j] }

\* std::sort with NameLess: a permutation in which no element is less than an
\* element before it.  std::sort is not stable, so the order of elements the
\* comparator holds equivalent is any order.
SortOutcomes(v) ==
    { [i \in 1..Len(v) |-> v[p[i]]] : p \in
        { q \in Perms(Len(v)) :
            \A i, j \in 1..Len(v) : i < j => ~NameLess(v[q[j]], v[q[i]]) } }

\* The loop of removeSelectedJobs over the rows sorted descending.
RECURSIVE EraseRows(_, _)
EraseRows(v, rows) ==
    IF rows = <<>> THEN v
    ELSE LET row == Head(rows)
         IN  IF row >= 0 /\ row < Len(v)
             THEN EraseRows(Erase(v, row), Tail(rows))
             ELSE EraseRows(v, Tail(rows))

\* RemoveResult with the rows erased in ascending order.
RemoveResultAscending(v, sel) == EraseRows(v, SortAsc(sel))

RemoveResult(v, sel) == EraseRows(v, Reverse(SortAsc(sel)))

\* The loop of moveJobs for direction -1, over the rows sorted ascending.
RECURSIVE SwapUp(_, _)
SwapUp(v, rows) ==
    IF rows = <<>> THEN v
    ELSE LET row == Head(rows)
         IN  IF row > 0 /\ row < Len(v)
             THEN SwapUp(Swap(v, row, row - 1), Tail(rows))
             ELSE SwapUp(v, Tail(rows))

\* The loop of moveJobs for the other direction, over the rows sorted
\* descending.
RECURSIVE SwapDown(_, _)
SwapDown(v, rows) ==
    IF rows = <<>> THEN v
    ELSE LET row == Head(rows)
         IN  IF row >= 0 /\ row < Len(v) - 1
             THEN SwapDown(Swap(v, row, row + 1), Tail(rows))
             ELSE SwapDown(v, Tail(rows))

\* MoveResult without the return at the upper boundary.
MoveResultUnguarded(v, sel, direction) ==
    LET sortedRows == SortAsc(sel)
    IN  IF sel = {} THEN v
        ELSE IF direction = 0 - 1
             THEN SwapUp(v, sortedRows)
             ELSE IF sortedRows[Len(sortedRows)] >= Len(v) - 1 THEN v
                  ELSE SwapDown(v, Reverse(sortedRows))

\* MoveResult with the rows processed in ascending order in both directions.
MoveResultAscending(v, sel, direction) ==
    LET sortedRows == SortAsc(sel)
    IN  IF sel = {} THEN v
        ELSE IF direction = 0 - 1
             THEN IF sortedRows[1] <= 0 THEN v ELSE SwapUp(v, sortedRows)
             ELSE IF sortedRows[Len(sortedRows)] >= Len(v) - 1 THEN v
                  ELSE SwapDown(v, sortedRows)

\* MoveResult that copies the first selected job over its neighbour instead
\* of swapping the two.
MoveResultOverwriting(v, sel, direction) ==
    LET sortedRows == SortAsc(sel)
    IN  IF sel = {} THEN v
        ELSE IF direction = 0 - 1
             THEN IF sortedRows[1] <= 0 \/ sortedRows[1] >= Len(v) THEN v
                  ELSE [v EXCEPT ![sortedRows[1]] = v[sortedRows[1] + 1]]
             ELSE IF sortedRows[Len(sortedRows)] >= Len(v) - 1 THEN v
                  ELSE [v EXCEPT ![sortedRows[1] + 2] = v[sortedRows[1] + 1]]

\* m_jobs after moveJobs(selectedRows, direction).
MoveResult(v, sel, direction) ==
    LET sortedRows == SortAsc(sel)
    IN  IF sel = {} THEN v
        ELSE IF direction = 0 - 1
             THEN IF sortedRows[1] <= 0 THEN v ELSE SwapUp(v, sortedRows)
             ELSE IF sortedRows[Len(sortedRows)] >= Len(v) - 1 THEN v
                  ELSE SwapDown(v, Reverse(sortedRows))

\* getFinalJobs: the loop over m_jobs from position i.
RECURSIVE FinalJobsFrom(_, _)
FinalJobsFrom(v, i) ==
    IF i > Len(v) THEN <<>>
    ELSE IF v[i].status = STATUS_CONFIGURED
         THEN <<v[i]>> \o FinalJobsFrom(v, i + 1)
         ELSE FinalJobsFrom(v, i + 1)

\* getFinalJobs without the test of the status.
GetFinalJobsAll(v) == v

GetFinalJobs(v) == FinalJobsFrom(v, 1)

\* -------------------------------------------------- configuration: catalog

\* What VsgBridge::scanFile answers for a path: tracks ("ok"), success with no
\* track ("empty"), or an error ("fail").
ScanFile(path) ==
    IF path.dir = "/good" THEN "ok"
    ELSE IF path.dir = "/void" THEN "empty"
    ELSE "fail"

\* fileInfo.tracks of a successful scan, converted to SourceTrackInfo.  The
\* inspection service reports the video track of "Source 2" capitalised.
ScannedTracks(sourceKey) ==
    << [ id |-> 0,
         type |-> IF sourceKey = "Source 1" THEN STR_video ELSE STR_Video,
         codecId |-> "V_MPEGH/ISO/HEVC", language |-> "und", name |-> "",
         isDefault |-> TRUE, isForced |-> FALSE,
         description |-> IF sourceKey = "Source 1"
                         THEN "video Track 0 (und) [1920x1080]"
                         ELSE "Video Track 0 (und)" ],
       [ id |-> 1, type |-> STR_audio,
         codecId |-> "A_FLAC", language |-> "jpn", name |-> "",
         isDefault |-> TRUE, isForced |-> FALSE,
         description |-> "audio Track 1 (jpn) [2ch]" ] >>

\* The placeholders configureJobAtRow adds when a source has no tracks.
PlaceholderTracks ==
    << [ id |-> 0, type |-> STR_video,
         codecId |-> "V_MPEG4/ISO/AVC", language |-> "und", name |-> "",
         isDefault |-> FALSE, isForced |-> FALSE,
         description |-> "Video track (scan unavailable)" ],
       [ id |-> 1, type |-> STR_audio,
         codecId |-> "A_AAC", language |-> "eng", name |-> "English",
         isDefault |-> FALSE, isForced |-> FALSE,
         description |-> "Audio track (scan unavailable)" ] >>

\* CatalogFor without the fallback: a source without tracks stays empty.
CatalogForNoFallback(sourceKey, available, outcome) ==
    IF available /\ outcome = "ok" THEN ScannedTracks(sourceKey) ELSE <<>>

\* The tracks of one source after the scan and the fallback.
CatalogFor(sourceKey, available, outcome) ==
    LET tracks == IF available /\ outcome = "ok" THEN ScannedTracks(sourceKey) ELSE <<>>
    IN  IF tracks = <<>> THEN PlaceholderTracks ELSE tracks

\* The calls of VsgBridge::scanFile configureJobAtRow makes: one per source
\* in the order of the sources, and none without the bridge.
ScanCalls(keys, available) == IF available THEN keys ELSE <<>>

\* The warnings configureJobAtRow logs: one per source whose scan failed, in
\* the order of the sources.
RECURSIVE ScanWarnings(_, _, _)
ScanWarnings(keys, available, scan) ==
    IF keys = <<>> THEN <<>>
    ELSE (IF available /\ scan[Head(keys)] = "fail"
          THEN << [kind |-> "scanFailed", source |-> Head(keys)] >>
          ELSE <<>>)
         \o ScanWarnings(Tail(keys), available, scan)

\* Blocked with the comparison of ManualLogic::isBlockedVideo, which does not
\* lower the type string.
BlockedExact(track, sourceKey) ==
    track.type = STR_video /\ sourceKey # "Source 1"

\* The flag populateSources computes for one track of one source list.
Blocked(track, sourceKey) ==
    ToLower(track.type) = STR_video /\ sourceKey # "Source 1"

\* PopulateSources that blocks nothing.
PopulateSourcesAllEnabled(trackInfo) ==
    [ k \in DOMAIN trackInfo |->
        [ i \in 1..Len(trackInfo[k]) |-> [track |-> trackInfo[k][i], enabled |-> TRUE] ] ]

\* SourceList::addTrackItem for every track of a source: the stored track
\* and whether its item is enabled.
PopulateSources(trackInfo) ==
    [ k \in DOMAIN trackInfo |->
        [ i \in 1..Len(trackInfo[k]) |->
            [ track |-> trackInfo[k][i],
              enabled |-> ~Blocked(trackInfo[k][i], k) ] ] ]

\* The track type onSourceTrackDoubleClicked derives from the type string.
TrackTypeOf(type) ==
    LET typeStr == Trimmed(ToLower(type))
    IN  IF typeStr = STR_video THEN "Video"
        ELSE IF typeStr = STR_audio THEN "Audio"
        ELSE "Subtitle"

\* The TrackData onSourceTrackDoubleClicked builds for a track of a source
\* list.
ToTrackData(track, sourceKey) ==
    [ id |-> track.id,
      type |-> TrackTypeOf(track.type),
      codecId |-> track.codecId,
      language |-> track.language,
      name |-> track.name,
      sourceKey |-> sourceKey,
      isDefault |-> track.isDefault,
      isForced |-> track.isForced,
      summary |-> track.description ]

\* An item of the final list: it carries a TrackWidget, or its widget is gone.
WidgetItem(t) == [widget |-> TRUE, track |-> t]

BareItem == [widget |-> FALSE]

\* FinalList::getTracks: the track of every item that has a widget, from
\* position i on.
RECURSIVE TracksFrom(_, _)
TracksFrom(items, i) ==
    IF i > Len(items) THEN <<>>
    ELSE IF items[i].widget
         THEN <<items[i].track>> \o TracksFrom(items, i + 1)
         ELSE TracksFrom(items, i + 1)

GetTracks(items) == TracksFrom(items, 1)

\* FinalList::moveSelectedBy with the current row given: the item is taken
\* and inserted at the new row; taking it releases its widget.
MoveSelectedBy(items, currentRow, direction) ==
    LET newRow == currentRow + direction
    IN  IF currentRow < 0 \/ currentRow >= Len(items) THEN items
        ELSE IF newRow < 0 \/ newRow >= Len(items) THEN items
        ELSE LET rest == Erase(items, currentRow)
             IN  SubSeq(rest, 1, newRow) \o <<BareItem>> \o SubSeq(rest, newRow + 1, Len(rest))

\* FinalList::removeSelectedTrack with the current row given.
RemoveSelectedTrack(items, currentRow) ==
    IF currentRow < 0 \/ currentRow >= Len(items) THEN items
    ELSE Erase(items, currentRow)

\* ManualSelectionDialog::getAttachmentSources: the checked keys in the order
\* of the checkbox map.
GetAttachmentSources(checked) == OrderedKeys(checked)

DialogClosed == [open |-> FALSE]

\* ConfiguredJob with the status taken from the layout: configured only when
\* there is a track.
ConfiguredJobIfTracks(job, layout, attachments) ==
    [ job EXCEPT !.trackLayout = layout,
                 !.attachmentSources = attachments,
                 !.status = IF layout = <<>> THEN STATUS_NEEDS ELSE STATUS_CONFIGURED ]

\* ConfiguredJob that stores the layout and leaves the status as it was.
ConfiguredJobKeepStatus(job, layout, attachments) ==
    [ job EXCEPT !.trackLayout = layout,
                 !.attachmentSources = attachments ]

\* The job configureJobAtRow stores when the dialog was accepted.
ConfiguredJob(job, layout, attachments) ==
    [ job EXCEPT !.trackLayout = layout,
                 !.attachmentSources = attachments,
                 !.status = STATUS_CONFIGURED ]

\* ------------------------------------------------------------------ state

\* MainController before processJobs was called: no batch, nothing logged.
\* `jobs' is the vector handed to processJobs, `i' its loop variable,
\* `calls' the arguments of the calls of VsgBridge::runJob, `results' what
\* they returned, `events' the calls and returns in their order, `cleaned'
\* the arguments of the calls of VsgBridge::cleanupTemp and `log' the lines
\* handed to appendLog.  `pending' is the queue VsgBridge::pollLog reads,
\* `emitted' the number of messages the engine has put into it,
\* `engineProgress' what VsgBridge::getProgress answers, `view' the progress
\* bar and the status label, and `trace' the calls the batch made (runJob and
\* its return, the summary, cleanupTemp) in the order it made them.
BatchIdle ==
    [ pc |-> "idle", jobs |-> <<>>, i |-> 0,
      completedCount |-> 0, failedCount |-> 0,
      workDirs |-> <<>>, calls |-> <<>>, results |-> <<>>, events |-> <<>>,
      cleaned |-> <<>>, log |-> <<>>,
      pending |-> <<>>, emitted |-> 0,
      engineProgress |-> [percent |-> 0, status |-> ""],
      view |-> [percent |-> 0, status |-> ""],
      trace |-> <<>> ]

\* The state after JobQueueDialog and JobQueueLogic are constructed: an empty
\* queue, no clipboard, no configuration dialog.  `bridge' is the build's
\* VsgBridge::isAvailable(); `last' names the handler that ran last and the
\* lines it handed to VsgBridge::log; `cap' holds the bounds of the
\* exploration: the jobs the queue holds at most, the items of a final list,
\* and the configuration dialogs opened.
Start(jobs, tracks, configure) ==
    /\ cap = [jobs |-> jobs, tracks |-> tracks, configure |-> configure]
    /\ m_jobs = <<>>
    /\ m_layoutClipboard = <<>>
    /\ dlg = DialogClosed
    /\ nConfigure = 0
    /\ bridge = TRUE
    /\ last = [op |-> "init", log |-> <<>>]
    /\ batch = BatchIdle

Init == Start(MaxJobs, MaxTracks, MaxConfigure)

\* A session in which a job is configured again: the queue holds a job that
\* was configured with the video track of its "Source 1" and a new job, and
\* the final lists are shorter.
ReconfigureJobs ==
    << ConfiguredJob(NewJob(MapA),
                     << ToTrackData(ScannedTracks("Source 1")[1], "Source 1") >>,
                     <<>>),
       NewJob(MapB) >>

InitReconfigure ==
    /\ cap = [jobs |-> MaxJobs, tracks |-> MaxTracks - 1, configure |-> MaxConfigure]
    /\ m_jobs \in SortOutcomes(ReconfigureJobs)
    /\ m_layoutClipboard = <<>>
    /\ dlg = DialogClosed
    /\ nConfigure = 0
    /\ bridge = TRUE
    /\ last = [op |-> "init", log |-> <<>>]
    /\ batch = BatchIdle

InRange(row) == row >= 0 /\ row < Len(m_jobs)

\* --------------------------------------------------- JobQueueLogic handlers

\* addJobs(jobs): push_back each job, then std::sort the whole queue.
AddJobs(jobs) ==
    /\ ~dlg.open
    /\ jobs # <<>>
    /\ Len(m_jobs) + Len(jobs) <= cap.jobs
    /\ m_jobs' \in SortOutcomes(m_jobs \o jobs)
    /\ last' = [op |-> "addJobs", log |-> <<>>]
    /\ UNCHANGED <<m_layoutClipboard, dlg, nConfigure, bridge, cap, batch>>

\* removeSelectedJobs() with the table's selected rows.
RemoveSelectedJobs(sel) ==
    /\ ~dlg.open
    /\ m_jobs' = RemoveResult(m_jobs, sel)
    /\ last' = [op |-> "removeSelectedJobs", log |-> <<>>]
    /\ UNCHANGED <<m_layoutClipboard, dlg, nConfigure, bridge, cap, batch>>

\* moveJobs(selectedRows, direction).
MoveJobs(sel, direction) ==
    /\ ~dlg.open
    /\ m_jobs' = MoveResult(m_jobs, sel, direction)
    /\ last' = [op |-> "moveJobs", log |-> <<>>]
    /\ UNCHANGED <<m_layoutClipboard, dlg, nConfigure, bridge, cap, batch>>

\* configureJobAtRow(row) up to dialog.exec(): the early return for a row out
\* of range, or the scan of every source and the dialog's construction.
ConfigureJobAtRow(row) ==
    /\ ~dlg.open
    /\ IF ~InRange(row)
       THEN /\ last' = [op |-> "configureJobAtRow", log |-> <<>>]
            /\ UNCHANGED <<dlg, nConfigure>>
       ELSE LET job == m_jobs[row + 1]
                scan == [k \in DOMAIN job.sources |-> ScanFile(job.sources[k])]
                trackInfo == [k \in DOMAIN job.sources |-> CatalogFor(k, bridge, scan[k])]
            IN  /\ nConfigure < cap.configure
                /\ nConfigure' = nConfigure + 1
                /\ dlg' = [ open |-> TRUE,
                            row |-> row,
                            externalList |-> <<>>,
                            scans |-> ScanCalls(OrderedKeys(DOMAIN job.sources), bridge),
                            sourceLists |-> PopulateSources(trackInfo),
                            items |-> <<>>,
                            checked |-> {} ]
                /\ last' = [ op |-> "configureJobAtRow",
                             log |-> ScanWarnings(OrderedKeys(DOMAIN job.sources),
                                                  bridge, scan) ]
    /\ UNCHANGED <<m_jobs, m_layoutClipboard, bridge, cap, batch>>

\* ClipboardAfterCopy without the test of the layout.
ClipboardAlwaysCopy(clipboard, job) == <<job>>

\* The clipboard after copyLayout reached a job: unchanged for an empty
\* layout, else the job.
ClipboardAfterCopy(clipboard, job) ==
    IF job.trackLayout = <<>> THEN clipboard ELSE <<job>>

\* copyLayout(row).
CopyLayout(row) ==
    /\ ~dlg.open
    /\ IF ~InRange(row)
       THEN /\ last' = [op |-> "copyLayout", log |-> <<>>]
            /\ UNCHANGED m_layoutClipboard
       ELSE LET job == m_jobs[row + 1]
            IN  /\ m_layoutClipboard' = ClipboardAfterCopy(m_layoutClipboard, job)
                /\ last' = [ op |-> "copyLayout",
                             log |-> IF job.trackLayout = <<>>
                                     THEN << [kind |-> "cannotCopy"] >>
                                     ELSE << [kind |-> "copied"] >> ]
    /\ UNCHANGED <<m_jobs, dlg, nConfigure, bridge, cap, batch>>

\* PasteResult that leaves the jobs that are configured already as they are.
PasteResultKeepConfigured(v, sel, source) ==
    [ i \in 1..Len(v) |->
        IF (i - 1) \in sel /\ v[i].status # STATUS_CONFIGURED
        THEN [ v[i] EXCEPT !.trackLayout = source.trackLayout,
                           !.attachmentSources = source.attachmentSources,
                           !.status = STATUS_CONFIGURED ]
        ELSE v[i] ]

\* The jobs after the loop of pasteLayout over the selected rows.
PasteResult(v, sel, source) ==
    [ i \in 1..Len(v) |->
        IF (i - 1) \in sel
        THEN [ v[i] EXCEPT !.trackLayout = source.trackLayout,
                           !.attachmentSources = source.attachmentSources,
                           !.status = STATUS_CONFIGURED ]
        ELSE v[i] ]

\* pastedCount of pasteLayout.
PastedCount(v, sel) == Cardinality({ row \in sel : row >= 0 /\ row < Len(v) })

\* pasteLayout without its two early returns: an absent clipboard is read as
\* a default-constructed JobData.
PasteLayoutNoGuard(sel) ==
    /\ ~dlg.open
    /\ LET source == IF m_layoutClipboard = <<>>
                     THEN [trackLayout |-> <<>>, attachmentSources |-> <<>>]
                     ELSE m_layoutClipboard[1]
       IN  /\ m_jobs' = PasteResult(m_jobs, sel, source)
           /\ last' = [ op |-> "pasteLayout",
                        log |-> IF PastedCount(m_jobs, sel) > 0
                                THEN << [ kind |-> "pasted",
                                          count |-> PastedCount(m_jobs, sel) ] >>
                                ELSE <<>> ]
    /\ UNCHANGED <<m_layoutClipboard, dlg, nConfigure, bridge, cap, batch>>

\* pasteLayout() with the table's selected rows.
PasteLayout(sel) ==
    /\ ~dlg.open
    /\ IF m_layoutClipboard = <<>>
       THEN /\ last' = [op |-> "pasteLayout", log |-> <<>>]
            /\ UNCHANGED m_jobs
       ELSE LET source == m_layoutClipboard[1]
            IN  IF source.trackLayout = <<>>
                THEN /\ last' = [op |-> "pasteLayout", log |-> <<>>]
                     /\ UNCHANGED m_jobs
                ELSE /\ m_jobs' = PasteResult(m_jobs, sel, source)
                     /\ last' = [ op |-> "pasteLayout",
                                  log |-> IF PastedCount(m_jobs, sel) > 0
                                          THEN << [ kind |-> "pasted",
                                                    count |-> PastedCount(m_jobs, sel) ] >>
                                          ELSE <<>> ]
    /\ UNCHANGED <<m_layoutClipboard, dlg, nConfigure, bridge, cap, batch>>

\* ------------------------------------------- ManualSelectionDialog handlers

\* SourceList::mouseDoubleClickEvent on item `index' of the list of
\* `sourceKey', and the slot onSourceTrackDoubleClicked it reaches when the
\* item is enabled.
DoubleClick(sourceKey, index) ==
    /\ dlg.open
    /\ sourceKey \in DOMAIN dlg.sourceLists
    /\ index >= 0 /\ index < Len(dlg.sourceLists[sourceKey])
    /\ LET item == dlg.sourceLists[sourceKey][index + 1]
       IN  IF item.enabled
           THEN /\ Len(dlg.items) < cap.tracks
                /\ dlg' = [dlg EXCEPT !.items =
                              Append(@, WidgetItem(ToTrackData(item.track, sourceKey)))]
           ELSE UNCHANGED dlg
    /\ last' = [op |-> "doubleClick", log |-> <<>>]
    /\ UNCHANGED <<m_jobs, m_layoutClipboard, nConfigure, bridge, cap, batch>>

\* Delete in the dialog: FinalList::removeSelectedTrack.
RemoveTrack(currentRow) ==
    /\ dlg.open
    /\ dlg' = [dlg EXCEPT !.items = RemoveSelectedTrack(@, currentRow)]
    /\ last' = [op |-> "removeSelectedTrack", log |-> <<>>]
    /\ UNCHANGED <<m_jobs, m_layoutClipboard, nConfigure, bridge, cap, batch>>

\* Ctrl+Up and Ctrl+Down in the dialog: FinalList::moveSelectedBy.
MoveTrack(currentRow, direction) ==
    /\ dlg.open
    /\ dlg' = [dlg EXCEPT !.items = MoveSelectedBy(@, currentRow, direction)]
    /\ last' = [op |-> "moveSelectedBy", log |-> <<>>]
    /\ UNCHANGED <<m_jobs, m_layoutClipboard, nConfigure, bridge, cap, batch>>

\* A click on the attachment checkbox of one source.
ToggleAttachment(sourceKey) ==
    /\ dlg.open
    /\ sourceKey \in DOMAIN dlg.sourceLists
    /\ dlg' = [dlg EXCEPT !.checked =
                  IF sourceKey \in @ THEN @ \ {sourceKey} ELSE @ \cup {sourceKey}]
    /\ last' = [op |-> "toggleAttachment", log |-> <<>>]
    /\ UNCHANGED <<m_jobs, m_layoutClipboard, nConfigure, bridge, cap, batch>>

\* Accept on layouts that are shared instead of copied: the jobs and the
\* clipboard that hold the layout of the configured job follow its change.
AcceptShared ==
    /\ dlg.open
    /\ LET old == m_jobs[dlg.row + 1].trackLayout
           new == GetTracks(dlg.items)
       IN  /\ m_jobs' = [ i \in 1..Len(m_jobs) |->
                            IF i = dlg.row + 1
                            THEN ConfiguredJob(m_jobs[i], new,
                                               GetAttachmentSources(dlg.checked))
                            ELSE IF old # <<>> /\ m_jobs[i].trackLayout = old
                                 THEN [m_jobs[i] EXCEPT !.trackLayout = new]
                                 ELSE m_jobs[i] ]
           /\ m_layoutClipboard' =
                 IF m_layoutClipboard # <<>> /\ old # <<>>
                    /\ m_layoutClipboard[1].trackLayout = old
                 THEN << [m_layoutClipboard[1] EXCEPT !.trackLayout = new] >>
                 ELSE m_layoutClipboard
    /\ dlg' = DialogClosed
    /\ last' = [op |-> "accept", log |-> <<>>]
    /\ UNCHANGED <<nConfigure, bridge, cap, batch>>

\* OK in the dialog: ManualSelectionDialog::accept, then the rest of
\* configureJobAtRow for QDialog::Accepted.
Accept ==
    /\ dlg.open
    /\ m_jobs' = [m_jobs EXCEPT ![dlg.row + 1] =
                    ConfiguredJob(@, GetTracks(dlg.items),
                                  GetAttachmentSources(dlg.checked))]
    /\ dlg' = DialogClosed
    /\ last' = [op |-> "accept", log |-> <<>>]
    /\ UNCHANGED <<m_layoutClipboard, nConfigure, bridge, cap, batch>>

\* Reject that stores the dialog's tracks as Accept does.
RejectStoring ==
    /\ dlg.open
    /\ m_jobs' = [m_jobs EXCEPT ![dlg.row + 1] =
                    ConfiguredJob(@, GetTracks(dlg.items),
                                  GetAttachmentSources(dlg.checked))]
    /\ dlg' = DialogClosed
    /\ last' = [op |-> "reject", log |-> <<>>]
    /\ UNCHANGED <<m_layoutClipboard, nConfigure, bridge, cap, batch>>

\* Cancel in the dialog: QDialog::reject, then the rest of configureJobAtRow.
Reject ==
    /\ dlg.open
    /\ dlg' = DialogClosed
    /\ last' = [op |-> "reject", log |-> <<>>]
    /\ UNCHANGED <<m_jobs, m_layoutClipboard, nConfigure, bridge, cap, batch>>

\* ---------------------------------------------------------- specification

Directions == {0 - 1, 1}

KeySet == {SourceKeys[i] : i \in 1..Len(SourceKeys)}

\* The rows of a source list.
ItemRows == 0..(Len(PlaceholderTracks) - 1)

Next ==
    \/ \E jobs \in JobVectors(MaxAdd) : AddJobs(jobs)
    \/ \E sel \in SUBSET RowInputs : RemoveSelectedJobs(sel)
    \/ \E sel \in SUBSET RowInputs, d \in Directions : MoveJobs(sel, d)
    \/ \E row \in RowInputs : ConfigureJobAtRow(row)
    \/ \E row \in RowInputs : CopyLayout(row)
    \/ \E sel \in SUBSET RowInputs : PasteLayout(sel)
    \/ \E k \in KeySet, index \in ItemRows : DoubleClick(k, index)
    \/ \E row \in 0..(cap.tracks - 1) : RemoveTrack(row)
    \/ \E row \in 0..(cap.tracks - 1), d \in Directions : MoveTrack(row, d)
    \/ \E k \in KeySet : ToggleAttachment(k)
    \/ Accept
    \/ Reject

Spec == Init /\ [][Next]_vars

SpecReconfigure == InitReconfigure /\ [][Next]_vars

\* The handlers that order the queue alone, from a full queue of four jobs
\* as addJobs leaves it: two of the jobs configured, with different layouts,
\* and three whose names are equal ignoring case.
QueueJobs ==
    << NewJob(MapB),
       ConfiguredJob(NewJob(MapA),
                     << ToTrackData(ScannedTracks("Source 1")[1], "Source 1"),
                        ToTrackData(ScannedTracks("Source 2")[2], "Source 2") >>,
                     <<"Source 1", "Source 2">>),
       ConfiguredJob(NewJob(MapSingle),
                     << ToTrackData(PlaceholderTracks[2], "Source 1") >>,
                     <<>>),
       NewJob(MapA) >>

InitQueue ==
    /\ cap = [jobs |-> Len(QueueJobs), tracks |-> MaxTracks, configure |-> 0]
    /\ m_jobs \in SortOutcomes(QueueJobs)
    /\ m_layoutClipboard = <<>>
    /\ dlg = DialogClosed
    /\ nConfigure = 0
    /\ bridge = TRUE
    /\ last = [op |-> "init", log |-> <<>>]
    /\ batch = BatchIdle

NextQueue ==
    \/ \E jobs \in JobVectors(MaxAdd) : AddJobs(jobs)
    \/ \E sel \in SUBSET RowInputs : RemoveSelectedJobs(sel)
    \/ \E sel \in SUBSET RowInputs, d \in Directions : MoveJobs(sel, d)

SpecQueue == InitQueue /\ [][NextQueue]_vars

\* ------------------------------------------------- MainController: the batch

\* The last source the loop of processJobs looks for.
MaxSourceIndex == 4

\* QString("Source %1").arg(j).
SourceKeyOf(j) ==
    << "Source 1", "Source 2", "Source 3", "Source 4", "Source 5" >>[j]

\* CollectPaths without the break at the first missing source.
RECURSIVE CollectPathsSparse(_, _)
CollectPathsSparse(sources, j) ==
    IF j > MaxSourceIndex THEN <<>>
    ELSE IF SourceKeyOf(j) \in DOMAIN sources
         THEN <<sources[SourceKeyOf(j)]>> \o CollectPathsSparse(sources, j + 1)
         ELSE CollectPathsSparse(sources, j + 1)

\* sourcePaths after the loop of processJobs over j, from j on.
RECURSIVE CollectPaths(_, _)
CollectPaths(sources, j) ==
    IF j > MaxSourceIndex THEN <<>>
    ELSE IF SourceKeyOf(j) \in DOMAIN sources
         THEN <<sources[SourceKeyOf(j)]>> \o CollectPaths(sources, j + 1)
         ELSE IF j > 1 THEN <<>>
              ELSE CollectPaths(sources, j + 1)

\* The list without the break at the first missing source.
SourcePathsSparse(sources) == CollectPathsSparse(sources, 1)

\* sourcePaths after the loop of processJobs over j.
SourcePaths(sources) == CollectPaths(sources, 1)

\* hasSource1 after the loop.
HasSource1(sources) == SourceKeyOf(1) \in DOMAIN sources

\* workDir of the job at loop index i: temp_root and the job id, which ends
\* in the index.
WorkDir(i) == [tempRoot |-> "temp_root", jobIndex |-> i]

\* The line appendLog gets at the head of every iteration.
HeaderLine(b) == [kind |-> "header", index |-> b.i, total |-> Len(b.jobs)]

\* processJobs that starts the loop without asking for the bridge.
ProcessingUnchecked(b, jobs, available) ==
    [ b EXCEPT !.pc = "loop", !.jobs = jobs ]

\* processJobs up to its loop: the bridge that is not available ends it with
\* one line.
Processing(b, jobs, available) ==
    IF ~available
    THEN [ b EXCEPT !.pc = "done", !.jobs = jobs,
                    !.log = Append(@, [kind |-> "bridgeUnavailable"]) ]
    ELSE [ b EXCEPT !.pc = "loop", !.jobs = jobs ]

\* Skipped that does not count the job.
SkippedUncounted(b) ==
    [ b EXCEPT !.view.status = "Processing job",
               !.log = @ \o << HeaderLine(b), [kind |-> "missingSource1", index |-> b.i] >>,
               !.i = @ + 1 ]

\* An iteration for a job without "Source 1": the error line, failedCount
\* and continue.
Skipped(b) ==
    [ b EXCEPT !.view.status = "Processing job",
               !.log = @ \o << HeaderLine(b), [kind |-> "missingSource1", index |-> b.i] >>,
               !.failedCount = @ + 1,
               !.i = @ + 1 ]

\* The track_type string of a TrackType: "video" unless Audio or Subtitle.
TypeString(type) ==
    IF type = "Audio" THEN STR_audio
    ELSE IF type = "Subtitle" THEN STR_subtitles
    ELSE STR_video

\* ConfigObj that writes custom_lang for every language that is not empty.
ConfigObjAnyLang(track) ==
    LET keys == {"is_default", "is_forced"}
                \cup (IF track.name # "" THEN {"custom_name"} ELSE {})
                \cup (IF track.language # "" THEN {"custom_lang"} ELSE {})
    IN  [ k \in keys |->
            CASE k = "is_default" -> track.isDefault
              [] k = "is_forced" -> track.isForced
              [] k = "custom_name" -> track.name
              [] k = "custom_lang" -> track.language ]

\* The "config" object of one track: the keys it has and their values.
ConfigObj(track) ==
    LET keys == {"is_default", "is_forced"}
                \cup (IF track.name # "" THEN {"custom_name"} ELSE {})
                \cup (IF track.language # "" /\ track.language # "und"
                      THEN {"custom_lang"} ELSE {})
    IN  [ k \in keys |->
            CASE k = "is_default" -> track.isDefault
              [] k = "is_forced" -> track.isForced
              [] k = "custom_name" -> track.name
              [] k = "custom_lang" -> track.language ]

\* The object appended to tracksArray for one track of the layout.
TrackObj(track) ==
    [ track_id |-> track.id,
      source_key |-> track.sourceKey,
      track_type |-> TypeString(track.type),
      config |-> ConfigObj(track) ]

\* LayoutJson that serializes the layout whether or not it has a track.
LayoutJsonAlways(job) ==
    << [ final_tracks |-> [ n \in 1..Len(job.trackLayout) |-> TrackObj(job.trackLayout[n]) ],
         attachment_sources |-> job.attachmentSources ] >>

\* The layoutJson handed to runJob: the empty string (no document) for a job
\* without tracks, else the one document with final_tracks and
\* attachment_sources.
LayoutJson(job) ==
    IF job.trackLayout = <<>> THEN <<>>
    ELSE << [ final_tracks |-> [ n \in 1..Len(job.trackLayout) |-> TrackObj(job.trackLayout[n]) ],
              attachment_sources |-> job.attachmentSources ] >>

\* Called that does not wait for runJob: the loop goes on.
CalledAsync(b) ==
    [ b EXCEPT !.view.status = "Processing job",
               !.log = Append(@, HeaderLine(b)),
               !.workDirs = Append(@, WorkDir(b.i)),
               !.calls = Append(@, [ index |-> b.i,
                                     jobName |-> b.jobs[b.i + 1].name,
                                     sourcePaths |-> SourcePaths(b.jobs[b.i + 1].sources),
                                     layoutJson |-> LayoutJson(b.jobs[b.i + 1]) ]),
               !.events = Append(@, [ev |-> "call", index |-> b.i]),
               !.trace = Append(@, [ev |-> "call", index |-> b.i]),
               !.i = @ + 1 ]

\* An iteration up to the call of VsgBridge::runJob, which blocks.
Called(b) ==
    [ b EXCEPT !.view.status = "Processing job",
               !.log = Append(@, HeaderLine(b)),
               !.workDirs = Append(@, WorkDir(b.i)),
               !.calls = Append(@, [ index |-> b.i,
                                     jobName |-> b.jobs[b.i + 1].name,
                                     sourcePaths |-> SourcePaths(b.jobs[b.i + 1].sources),
                                     layoutJson |-> LayoutJson(b.jobs[b.i + 1]) ]),
               !.events = Append(@, [ev |-> "call", index |-> b.i]),
               !.trace = Append(@, [ev |-> "call", index |-> b.i]),
               !.pc = "running" ]

\* The loop of pollLogs over VsgBridge::pollLog: every message is handed to
\* appendLog until pollLog answers the empty string, which is its answer for
\* an empty queue and for a message without text alike.
RECURSIVE Drained(_)
Drained(pending) ==
    IF pending = <<>> \/ Head(pending).text = "" THEN <<>>
    ELSE <<Head(pending)>> \o Drained(Tail(pending))

\* What the loop leaves in the queue: pollLog has taken the message that
\* ended the loop.
RECURSIVE Undrained(_)
Undrained(pending) ==
    IF pending = <<>> THEN <<>>
    ELSE IF Head(pending).text = "" THEN Tail(pending)
    ELSE Undrained(Tail(pending))

\* MainController::pollLogs: nothing without the bridge; else the loop, then
\* the progress and the status when the status is not empty.
PollLogs(b) ==
    IF ~bridge THEN b
    ELSE [ b EXCEPT !.log = @ \o Drained(b.pending),
                    !.pending = Undrained(b.pending),
                    !.view = IF b.engineProgress.status # "" THEN b.engineProgress ELSE @ ]

\* The calls of VsgBridge::cleanupTemp for the directories in their order.
CleanupCalls(dirs) == [ n \in 1..Len(dirs) |-> [ev |-> "cleanup", dir |-> dirs[n]] ]

\* Classified that leaves the loop at the first job that failed.
ClassifiedStopOnFailure(b, success) ==
    [ PollLogs(b) EXCEPT
               !.results = Append(@, [index |-> b.i, success |-> success]),
               !.events = Append(@, [ev |-> "return", index |-> b.i]),
               !.trace = Append(@, [ev |-> "return", index |-> b.i]),
               !.completedCount = IF success THEN @ + 1 ELSE @,
               !.failedCount = IF success THEN @ ELSE @ + 1,
               !.log = Append(@, [ kind |-> IF success THEN "success" ELSE "failed",
                                   index |-> b.i ]),
               !.i = IF success THEN @ + 1 ELSE Len(b.jobs),
               !.pc = "loop" ]

\* Classified that counts every job that returned as completed.
ClassifiedAllCompleted(b, success) ==
    [ PollLogs(b) EXCEPT
               !.results = Append(@, [index |-> b.i, success |-> success]),
               !.events = Append(@, [ev |-> "return", index |-> b.i]),
               !.trace = Append(@, [ev |-> "return", index |-> b.i]),
               !.completedCount = @ + 1,
               !.log = Append(@, [ kind |-> IF success THEN "success" ELSE "failed",
                                   index |-> b.i ]),
               !.i = @ + 1,
               !.pc = "loop" ]

\* Classified that logs the result before it polls the remaining messages.
ClassifiedBeforeDrain(b, success) ==
    PollLogs([ b EXCEPT
               !.results = Append(@, [index |-> b.i, success |-> success]),
               !.events = Append(@, [ev |-> "return", index |-> b.i]),
               !.trace = Append(@, [ev |-> "return", index |-> b.i]),
               !.completedCount = IF success THEN @ + 1 ELSE @,
               !.failedCount = IF success THEN @ ELSE @ + 1,
               !.log = Append(@, [ kind |-> IF success THEN "success" ELSE "failed",
                                   index |-> b.i ]),
               !.i = @ + 1,
               !.pc = "loop" ])

\* The rest of an iteration once runJob has returned: pollLogs, then the
\* counts and the lines for the result.
Classified(b, success) ==
    [ PollLogs(b) EXCEPT
               !.results = Append(@, [index |-> b.i, success |-> success]),
               !.events = Append(@, [ev |-> "return", index |-> b.i]),
               !.trace = Append(@, [ev |-> "return", index |-> b.i]),
               !.completedCount = IF success THEN @ + 1 ELSE @,
               !.failedCount = IF success THEN @ ELSE @ + 1,
               !.log = Append(@, [ kind |-> IF success THEN "success" ELSE "failed",
                                   index |-> b.i ]),
               !.i = @ + 1,
               !.pc = "loop" ]

\* The work directories of the calls that returned success.
RECURSIVE DirsOfSuccess(_, _, _)
DirsOfSuccess(dirs, results, n) ==
    IF n > Len(dirs) THEN <<>>
    ELSE (IF results[n].success THEN <<dirs[n]>> ELSE <<>>)
         \o DirsOfSuccess(dirs, results, n + 1)

\* Finished that cleans up after the jobs that succeeded only.
FinishedCleanOnSuccess(b) ==
    [ b EXCEPT !.log = Append(@, [ kind |-> "summary",
                                   completed |-> b.completedCount,
                                   failed |-> b.failedCount ]),
               !.view = [percent |-> 100, status |-> "Ready"],
               !.cleaned = DirsOfSuccess(b.workDirs, b.results, 1),
               !.trace = @ \o <<[ev |-> "summary"]>>
                           \o CleanupCalls(DirsOfSuccess(b.workDirs, b.results, 1)),
               !.pc = "done" ]

\* Finished that leaves the status label and the progress bar as they are.
FinishedKeepStatus(b) ==
    [ b EXCEPT !.log = Append(@, [ kind |-> "summary",
                                   completed |-> b.completedCount,
                                   failed |-> b.failedCount ]),
               !.cleaned = b.workDirs,
               !.trace = @ \o <<[ev |-> "summary"]>> \o CleanupCalls(b.workDirs),
               !.pc = "done" ]

\* Finished that cleans up before it logs the summary.
FinishedCleanFirst(b) ==
    [ b EXCEPT !.log = Append(@, [ kind |-> "summary",
                                   completed |-> b.completedCount,
                                   failed |-> b.failedCount ]),
               !.view = [percent |-> 100, status |-> "Ready"],
               !.cleaned = b.workDirs,
               !.trace = @ \o CleanupCalls(b.workDirs) \o <<[ev |-> "summary"]>>,
               !.pc = "done" ]

\* processJobs after its loop: the summary, "Ready" and 100 percent, then
\* cleanupTemp for every recorded work directory.
Finished(b) ==
    [ b EXCEPT !.log = Append(@, [ kind |-> "summary",
                                   completed |-> b.completedCount,
                                   failed |-> b.failedCount ]),
               !.view = [percent |-> 100, status |-> "Ready"],
               !.cleaned = b.workDirs,
               !.trace = @ \o <<[ev |-> "summary"]>> \o CleanupCalls(b.workDirs),
               !.pc = "done" ]

\* openJobQueue once the queue dialog was accepted: getFinalJobs, and
\* processJobs up to its loop when there is a job.
OpenJobQueueAccepted ==
    /\ batch.pc = "idle"
    /\ ~dlg.open
    /\ LET jobs == GetFinalJobs(m_jobs)
       IN  batch' = IF jobs = <<>>
                    THEN [ batch EXCEPT !.pc = "done",
                                        !.log = Append(@, [kind |-> "noJobs"]) ]
                    ELSE Processing([ batch EXCEPT !.log =
                                        Append(@, [kind |-> "starting", count |-> Len(jobs)]) ],
                                    jobs, bridge)
    /\ last' = [op |-> "openJobQueue", log |-> <<>>]
    /\ UNCHANGED <<m_jobs, m_layoutClipboard, dlg, nConfigure, bridge, cap>>

\* One iteration of the loop of processJobs up to runJob, or all of it for a
\* job without "Source 1".
BeginJob ==
    /\ batch.pc = "loop"
    /\ batch.i < Len(batch.jobs)
    /\ batch' = IF HasSource1(batch.jobs[batch.i + 1].sources)
                THEN Called(batch)
                ELSE Skipped(batch)
    /\ last' = [op |-> "processJobs", log |-> <<>>]
    /\ UNCHANGED <<m_jobs, m_layoutClipboard, dlg, nConfigure, bridge, cap>>

\* VsgBridge::runJob returns; the stub build's runJob returns failure.
EngineReturn(success) ==
    /\ batch.pc = "running"
    /\ bridge \/ ~success
    /\ batch' = Classified(batch, success)
    /\ last' = [op |-> "processJobs", log |-> <<>>]
    /\ UNCHANGED <<m_jobs, m_layoutClipboard, dlg, nConfigure, bridge, cap>>

\* The engine, in a call of runJob, puts a message into the queue of
\* pollLog and sets its progress; the batch sees at most MaxMessages of them.
MaxMessages == 2

EngineEmit ==
    /\ batch.pc = "running"
    /\ bridge
    /\ batch.emitted < MaxMessages
    /\ batch' = [ batch EXCEPT
                    !.pending = Append(@, [ kind |-> "engine", index |-> batch.i,
                                            seq |-> batch.emitted + 1, text |-> "line" ]),
                    !.emitted = @ + 1,
                    !.engineProgress = [percent |-> 50, status |-> "working"] ]
    /\ UNCHANGED <<m_jobs, m_layoutClipboard, dlg, nConfigure, bridge, last, cap>>

\* m_logPollTimer times out and the event loop calls pollLogs: the GUI thread
\* has to be in the event loop, which it is not while processJobs runs.
PollTimer ==
    /\ batch.pc \in {"idle", "done"}
    /\ batch' = PollLogs(batch)
    /\ last' = [op |-> "pollLogs", log |-> <<>>]
    /\ UNCHANGED <<m_jobs, m_layoutClipboard, dlg, nConfigure, bridge, cap>>

\* The end of processJobs.
FinishBatch ==
    /\ batch.pc = "loop"
    /\ batch.i >= Len(batch.jobs)
    /\ batch' = Finished(batch)
    /\ last' = [op |-> "processJobs", log |-> <<>>]
    /\ UNCHANGED <<m_jobs, m_layoutClipboard, dlg, nConfigure, bridge, cap>>

\* The queues a batch is started from hold at most MaxBatch jobs.
MaxBatch == 3

\* Source maps: discovered jobs have "Source 1" to "Source n", n from 0 on;
\* the job openJobQueue adds from the main window can have "Source 3"
\* without "Source 2".
MapGap ==
    [k \in {"Source 1", "Source 3"} |->
        IF k = "Source 1" THEN Path("/good", <<99>>) ELSE Path("/good", <<99, 51>>)]

MapNone == [k \in {} |-> Path("/good", <<>>)]

MapFive ==
    [k \in {SourceKeyOf(j) : j \in 1..5} |->
        Path("/good", <<101, 48 + (CHOOSE j \in 1..5 : SourceKeyOf(j) = k)>>)]

\* A subtitle track as a scan reports it: no language, a name.
ScannedSubtitle ==
    [ id |-> 2, type |-> STR_subtitles,
      codecId |-> "S_TEXT/ASS", language |-> "", name |-> "Signs",
      isDefault |-> FALSE, isForced |-> TRUE,
      description |-> "subtitles Track 2 () - Signs" ]

\* The jobs of the queues: configured jobs whose sources are contiguous, have
\* a gap, are absent or go beyond the last source looked for, and a job that
\* needs configuration.  The layouts come from the dialog or from a paste;
\* one job was accepted with an empty final list.
BatchJobs ==
    LET layout == << ToTrackData(ScannedTracks("Source 1")[1], "Source 1") >>
        mixed == << ToTrackData(PlaceholderTracks[2], "Source 3"),
                    ToTrackData(ScannedSubtitle, "Source 1"),
                    ToTrackData(ScannedTracks("Source 1")[1], "Source 1") >>
    IN  { QueueJobs[2],
          ConfiguredJob(NewJob(MapGap), mixed, <<>>),
          ConfiguredJob(NewJob(MapNone), layout, <<>>),
          ConfiguredJob(NewJob(MapFive), <<>>, <<"Source 1">>),
          NewJob(MapB) }

RECURSIVE BatchQueues(_)
BatchQueues(n) ==
    IF n = 0 THEN { <<>> }
    ELSE BatchQueues(n - 1)
         \cup { Append(q, j) : q \in { q \in BatchQueues(n - 1) : Len(q) = n - 1 },
                                j \in BatchJobs }

\* The queue dialog is about to be accepted.  A job without sources comes
\* from the bridge's discovery, so not in a build without bridge.
InitBatch ==
    /\ cap = [jobs |-> MaxBatch, tracks |-> MaxTracks, configure |-> 0]
    /\ m_jobs \in BatchQueues(MaxBatch)
    /\ bridge \in BOOLEAN
    /\ bridge \/ \A n \in 1..Len(m_jobs) : m_jobs[n].sources # MapNone
    /\ m_layoutClipboard = <<>>
    /\ dlg = DialogClosed
    /\ nConfigure = 0
    /\ last = [op |-> "init", log |-> <<>>]
    /\ batch = BatchIdle

NextBatch ==
    \/ OpenJobQueueAccepted
    \/ BeginJob
    \/ \E success \in BOOLEAN : EngineReturn(success)
    \/ FinishBatch
    \/ EngineEmit
    \/ PollTimer

SpecBatch == InitBatch /\ [][NextBatch]_vars

\* The batch with progress: processJobs, once called, goes on with its loop
\* and its end, and every call of runJob returns.
SpecBatchFair ==
    /\ InitBatch /\ [][NextBatch]_vars
    /\ WF_vars(BeginJob)
    /\ WF_vars(FinishBatch)
    /\ WF_vars(\E success \in BOOLEAN : EngineReturn(success))

\* ------------------------------------------- dialog: external subtitles

STR_srt == <<115, 114, 116>>

STR_ass == <<97, 115, 115>>

STR_ssa == <<115, 115, 97>>

STR_sup == <<115, 117, 112>>

\* A file chosen in the file dialog: QFileInfo's baseName, suffix and
\* fileName.
SubtitleFile(baseName, suffix, fileName) ==
    [baseName |-> baseName, suffix |-> suffix, fileName |-> fileName]

SubtitleFiles ==
    { SubtitleFile("subs", <<83, 82, 84>>, "subs.SRT"),
      SubtitleFile("signs", STR_ass, "signs.ass") }

\* The codec onAddExternalSubtitles derives from the extension.
CodecOfSuffix(suffix) ==
    LET ext == ToLower(suffix)
    IN  IF ext = STR_srt THEN "S_TEXT/UTF8"
        ELSE IF ext = STR_ass \/ ext = STR_ssa THEN "S_TEXT/ASS"
        ELSE IF ext = STR_sup THEN "S_HDMV/PGS"
        ELSE ""

\* The SourceTrackInfo onAddExternalSubtitles builds for one file.
ExternalTrack(file) ==
    [ id |-> 0, type |-> STR_subtitles,
      codecId |-> CodecOfSuffix(file.suffix), language |-> "", name |-> file.baseName,
      isDefault |-> FALSE, isForced |-> FALSE,
      description |-> "External: " \o file.fileName ]

\* m_externalList after addTrackItem for every chosen file: items that are
\* not blocked.
RECURSIVE ExternalItems(_)
ExternalItems(files) ==
    IF files = <<>> THEN <<>>
    ELSE << [track |-> ExternalTrack(Head(files)), enabled |-> TRUE] >>
         \o ExternalItems(Tail(files))

\* The external list of a dialog holds at most MaxExternal tracks.
MaxExternal == 2

FileVectors ==
    { <<>> } \cup { <<f>> : f \in SubtitleFiles }
             \cup { <<f, g>> : f, g \in SubtitleFiles }

\* "Add external subtitles" with the files chosen; none chosen changes
\* nothing.
AddExternalSubtitles(files) ==
    /\ dlg.open
    /\ Len(dlg.externalList) + Len(files) <= MaxExternal
    /\ dlg' = [dlg EXCEPT !.externalList = @ \o ExternalItems(files)]
    /\ last' = [op |-> "onAddExternalSubtitles", log |-> <<>>]
    /\ UNCHANGED <<m_jobs, m_layoutClipboard, nConfigure, bridge, cap, batch>>

\* The source key onSourceTrackDoubleClicked finds for the list that sent
\* the signal: the key under which m_sourceLists holds the list, and the
\* empty string for a list that m_sourceLists does not hold.
SourceKeyOfSender(sender) ==
    IF sender \in DOMAIN dlg.sourceLists THEN sender ELSE ""

\* A double click on item `index' of the external list.
DoubleClickExternal(index) ==
    /\ dlg.open
    /\ index >= 0 /\ index < Len(dlg.externalList)
    /\ LET item == dlg.externalList[index + 1]
       IN  IF item.enabled
           THEN /\ Len(dlg.items) < cap.tracks
                /\ dlg' = [dlg EXCEPT !.items =
                              Append(@, WidgetItem(ToTrackData(item.track,
                                            SourceKeyOfSender("m_externalList"))))]
           ELSE UNCHANGED dlg
    /\ last' = [op |-> "doubleClickExternal", log |-> <<>>]
    /\ UNCHANGED <<m_jobs, m_layoutClipboard, nConfigure, bridge, cap, batch>>

\* A queue whose sources scan well, fail to scan or scan to no track, in a
\* build with or without the bridge; one of its jobs is configured.
ScanJobs == << NewJob(MapA), NewJob(MapB), NewJob(MapSingle) >>

InitScan ==
    /\ cap = [jobs |-> Len(ScanJobs), tracks |-> MaxTracks, configure |-> MaxConfigure]
    /\ m_jobs \in SortOutcomes(ScanJobs)
    /\ bridge \in BOOLEAN
    /\ m_layoutClipboard = <<>>
    /\ dlg = DialogClosed
    /\ nConfigure = 0
    /\ last = [op |-> "init", log |-> <<>>]
    /\ batch = BatchIdle

NextScan ==
    \/ \E row \in RowInputs : ConfigureJobAtRow(row)
    \/ \E k \in KeySet, index \in ItemRows : DoubleClick(k, index)
    \/ \E files \in FileVectors : AddExternalSubtitles(files)
    \/ \E index \in 0..(MaxExternal - 1) : DoubleClickExternal(index)
    \/ Accept
    \/ Reject

SpecScan == InitScan /\ [][NextScan]_vars

\* ------------------------------------------------- how jobs enter the queue

\* The text of a source input: a path, nothing, or either within white
\* space.  `path' has the path when there is one.
Field(pad, path) == [pad |-> pad, path |-> path]

\* text().trimmed() of an input, as the sequence of the paths in it: empty
\* for a text that is empty or white space.
TrimmedField(f) == f.path

FieldInputs ==
    { Field(FALSE, <<>>), Field(TRUE, <<>>),
      Field(FALSE, <<Path("/good", <<97>>)>>),
      Field(TRUE, <<Path("/good", <<97, 50>>)>>) }

\* findAndAccept: the paths of the inputs that are not empty, in the order of
\* the inputs.
RECURSIVE CollectFields(_)
CollectFields(fields) ==
    IF fields = <<>> THEN <<>>
    ELSE TrimmedField(Head(fields)) \o CollectFields(Tail(fields))

\* The source map findAndAccept builds from a list of paths: the path at
\* index i under "Source i+1".
SourcesFromPaths(list) ==
    [ k \in { SourceKeyOf(i) : i \in 1..Len(list) } |->
        list[CHOOSE i \in 1..Len(list) : SourceKeyOf(i) = k] ]

\* What job discovery may answer for the paths: a sequence of at most n
\* jobs, each with an ordered list of source paths taken from the input.
RECURSIVE DiscoveryResults(_, _)
DiscoveryResults(paths, n) ==
    IF n = 0 THEN { <<>> }
    ELSE LET shorter == DiscoveryResults(paths, n - 1)
         IN  shorter \cup { Append(v, SubSeq(paths, 1, k)) :
                              v \in { w \in shorter : Len(w) = n - 1 },
                              k \in 0..Len(paths) }

\* DiscoveredJobs whose fallback makes one job of every path.
DiscoveredJobsPerPath(paths, discovered) ==
    IF discovered # <<>>
    THEN [ n \in 1..Len(discovered) |-> SourcesFromPaths(discovered[n]) ]
    ELSE [ n \in 1..Len(paths) |-> SourcesFromPaths(<<paths[n]>>) ]

\* m_discoveredJobs when findAndAccept accepts: the maps of the discovered
\* jobs, or one map of the inputs when there is none.
DiscoveredJobs(paths, discovered) ==
    IF discovered # <<>>
    THEN [ n \in 1..Len(discovered) |-> SourcesFromPaths(discovered[n]) ]
    ELSE << SourcesFromPaths(paths) >>

\* The jobs openJobQueue adds from the inputs of the main window.
InitialJobs(ref, sec, ter) ==
    IF TrimmedField(ref) = <<>> THEN <<>>
    ELSE LET keys == {"Source 1"}
                     \cup (IF TrimmedField(sec) # <<>> THEN {"Source 2"} ELSE {})
                     \cup (IF TrimmedField(ter) # <<>> THEN {"Source 3"} ELSE {})
             sources == [ k \in keys |->
                            IF k = "Source 1" THEN TrimmedField(ref)[1]
                            ELSE IF k = "Source 2" THEN TrimmedField(sec)[1]
                            ELSE TrimmedField(ter)[1] ]
         IN  << NewJob(sources) >>

\* "Add Jobs" or a drop on the queue dialog: the AddJobDialog with its inputs
\* filled, "Find and add", and addJobs for what was discovered.  Without a
\* path the dialog warns and stays open.
AddJobDialogAccepted(origin, fields, discovered) ==
    /\ ~dlg.open
    /\ LET paths == CollectFields(fields)
       IN  IF paths = <<>>
           THEN /\ discovered = <<>>
                /\ UNCHANGED m_jobs
                /\ last' = [op |-> origin, log |-> << [kind |-> "inputRequired"] >>]
           ELSE /\ discovered \in (IF bridge THEN DiscoveryResults(paths, MaxAdd) ELSE { <<>> })
                /\ LET maps == DiscoveredJobs(paths, discovered)
                       jobs == [ n \in 1..Len(maps) |-> NewJob(maps[n]) ]
                   IN  /\ Len(m_jobs) + Len(jobs) <= cap.jobs
                       /\ m_jobs' \in SortOutcomes(m_jobs \o jobs)
                /\ last' = [op |-> origin, log |-> <<>>]
    /\ UNCHANGED <<m_layoutClipboard, dlg, nConfigure, bridge, cap, batch>>

\* openJobQueue has built the queue dialog.
InitIntake ==
    /\ cap = [jobs |-> MaxJobs, tracks |-> MaxTracks, configure |-> 0]
    /\ \E ref, sec, ter \in FieldInputs : m_jobs = InitialJobs(ref, sec, ter)
    /\ bridge \in BOOLEAN
    /\ m_layoutClipboard = <<>>
    /\ dlg = DialogClosed
    /\ nConfigure = 0
    /\ last = [op |-> "init", log |-> <<>>]
    /\ batch = BatchIdle

FieldVectors == { <<a, b>> : a, b \in FieldInputs }

NextIntake ==
    \/ \E origin \in {"onAddJobsClicked", "dropEvent"}, fields \in FieldVectors :
          \E discovered \in DiscoveryResults(CollectFields(fields), MaxAdd) :
              AddJobDialogAccepted(origin, fields, discovered)
    \/ \E sel \in SUBSET RowInputs : RemoveSelectedJobs(sel)

SpecIntake == InitIntake /\ [][NextIntake]_vars

\* ================================================================== claims

HasVideoFrom(layout, keys) ==
    \E n \in 1..Len(layout) : layout[n].type = "Video" /\ layout[n].sourceKey \in keys

ConfiguredRows(v) == { i \in 1..Len(v) : v[i].status = STATUS_CONFIGURED }

\* C3: getFinalJobs returns exactly the jobs whose status is Configured, in
\* their queue order, and none whose status is Needs Configuration.
C3_FinalJobsAreConfigured ==
    LET final == GetFinalJobs(m_jobs)
        rows == SortAsc(ConfiguredRows(m_jobs))
    IN  /\ final = [k \in 1..Len(rows) |-> m_jobs[rows[k]]]
        /\ \A k \in 1..Len(final) : final[k].status # STATUS_NEEDS

\* The queue holds a job that needs configuration ahead of a configured one.
C3_Witness ==
    /\ Len(m_jobs) = 2
    /\ m_jobs[1].status = STATUS_NEEDS
    /\ m_jobs[2].status = STATUS_CONFIGURED
    /\ Len(GetFinalJobs(m_jobs)) = 1

\* Insertion of one job into a sorted sequence behind every job that is not
\* greater: the stable position.
RECURSIVE InsertStable(_, _)
InsertStable(sorted, j) ==
    IF sorted = <<>> THEN <<j>>
    ELSE IF NameLess(j, Head(sorted)) THEN <<j>> \o sorted
    ELSE <<Head(sorted)>> \o InsertStable(Tail(sorted), j)

RECURSIVE StableSortFrom(_, _, _)
StableSortFrom(v, i, sorted) ==
    IF i > Len(v) THEN sorted
    ELSE StableSortFrom(v, i + 1, InsertStable(sorted, v[i]))

StableSort(v) == StableSortFrom(v, 1, <<>>)

\* C4: addJobs appends the new jobs and then stably sorts the whole queue by
\* the name ignoring case: jobs whose names are equal ignoring case keep the
\* order they had after the append.
C4_AddIsStableSort ==
    [][\A jobs \in JobVectors(MaxAdd) :
          AddJobs(jobs) => m_jobs' = StableSort(m_jobs \o jobs)]_vars

Count(j, v) == Cardinality({ i \in 1..Len(v) : v[i] = j })

\* C5: no handler changes a job's status from Configured to Needs
\* Configuration, and a job becomes Configured only through the dialog's
\* accept or through pasteLayout.  addJobs and moveJobs keep every job and the
\* number of configured jobs, removeSelectedJobs keeps only jobs that were
\* there, and every other handler keeps the rows.
C5_StatusMovesForward ==
    [][ IF last'.op \in {"addJobs", "moveJobs"}
        THEN /\ \A i \in 1..Len(m_jobs) : Count(m_jobs[i], m_jobs') >= Count(m_jobs[i], m_jobs)
             /\ Cardinality(ConfiguredRows(m_jobs')) = Cardinality(ConfiguredRows(m_jobs))
        ELSE IF last'.op = "removeSelectedJobs"
        THEN \A i \in 1..Len(m_jobs') : Count(m_jobs'[i], m_jobs') <= Count(m_jobs'[i], m_jobs)
        ELSE /\ Len(m_jobs') = Len(m_jobs)
             /\ \A i \in 1..Len(m_jobs) :
                   /\ m_jobs[i].status = STATUS_CONFIGURED
                      => m_jobs'[i].status = STATUS_CONFIGURED
                   /\ (m_jobs[i].status # STATUS_CONFIGURED /\ m_jobs'[i].status = STATUS_CONFIGURED)
                      => last'.op \in {"accept", "pasteLayout"}
      ]_vars

\* The configured job, copied to the clipboard and pasted onto the new job,
\* has been accepted again with an empty final list and is still Configured,
\* as is the job pasted onto.
C5_Witness ==
    /\ last.op = "accept"
    /\ Len(m_jobs) = 2
    /\ m_layoutClipboard # <<>>
    /\ m_layoutClipboard[1].sources = m_jobs[1].sources
    /\ m_layoutClipboard[1].trackLayout # <<>>
    /\ m_jobs[1].status = STATUS_CONFIGURED
    /\ m_jobs[1].trackLayout = <<>>
    /\ m_jobs[2].status = STATUS_CONFIGURED
    /\ m_jobs[2].trackLayout = m_layoutClipboard[1].trackLayout

\* C6: accepting a configuration whose final track list is empty does not set
\* the job to Configured: the job remains Needs Configuration.
C6_EmptyLayoutStaysUnconfigured ==
    [][ ( /\ Accept
          /\ GetTracks(dlg.items) = <<>>
          /\ m_jobs[dlg.row + 1].status = STATUS_NEEDS )
        => m_jobs'[dlg.row + 1].status = STATUS_NEEDS ]_vars

\* The extremal selected row is at the boundary of the queue in the direction
\* of the move.
AtBoundary(v, sel, direction) ==
    IF direction = 0 - 1
    THEN \E r \in sel : r <= 0
    ELSE \E r \in sel : r >= Len(v) - 1

\* C7: moveJobs is all or nothing: with the extremal selected row at the
\* boundary the queue is unchanged, otherwise every selected job ends exactly
\* one position further in the direction of the move.
C7_MoveAllOrNothing ==
    [][\A sel \in SUBSET RowInputs, d \in Directions :
          (sel # {} /\ MoveJobs(sel, d))
          => IF AtBoundary(m_jobs, sel, d)
             THEN m_jobs' = m_jobs
             ELSE /\ Len(m_jobs') = Len(m_jobs)
                  /\ \A r \in sel : InRange(r) => m_jobs'[r + d + 1] = m_jobs[r + 1]
      ]_vars

\* A move has brought job "b", which addJobs sorts last, to the top of the
\* full queue.
C7_Witness ==
    /\ last.op = "moveJobs"
    /\ Len(m_jobs) = Len(QueueJobs)
    /\ m_jobs[1] = QueueJobs[1]

\* C8: for every selection of rows of the queue that is not at the boundary,
\* moveJobs in one direction followed by moveJobs of the shifted rows in the
\* other direction gives the original queue: the order, and with it every
\* job's layout, attachment sources and status.
C8_MoveRoundTrip ==
    \A sel \in SUBSET (0..(Len(m_jobs) - 1)), d \in Directions :
        (sel # {} /\ ~AtBoundary(m_jobs, sel, d))
        => MoveResult(MoveResult(m_jobs, sel, d), { r + d : r \in sel }, 0 - d) = m_jobs

\* A move has left the configured two-source job behind job "b", at the end
\* of the full queue, where two rows above it can be selected and moved.
C8_Witness ==
    /\ last.op = "moveJobs"
    /\ Len(m_jobs) = Len(QueueJobs)
    /\ m_jobs[Len(m_jobs)] = QueueJobs[2]
    /\ m_jobs[Len(m_jobs)].trackLayout # <<>>

\* C9: removeSelectedJobs deletes exactly the jobs at the selected rows of the
\* queue, keeps the other jobs in their order, and ignores the selected rows
\* out of range.
C9_RemoveExactlySelected ==
    [][\A sel \in SUBSET RowInputs :
          RemoveSelectedJobs(sel)
          => LET kept == SortAsc({ r \in 0..(Len(m_jobs) - 1) : r \notin sel })
             IN  m_jobs' = [k \in 1..Len(kept) |-> m_jobs[kept[k] + 1]]
      ]_vars

\* removeSelectedJobs has left two jobs of the full queue, the configured
\* ones.
C9_Witness ==
    /\ last.op = "removeSelectedJobs"
    /\ Len(m_jobs) = 2
    /\ \A i \in 1..2 : m_jobs[i].status = STATUS_CONFIGURED

\* C10: copyLayout on a job whose status is not Configured or whose layout is
\* empty leaves the clipboard as it was and logs a warning; on any other job
\* it replaces the clipboard with the job's layout and attachment sources.
C10_CopyGuard ==
    [][\A row \in RowInputs :
          (CopyLayout(row) /\ InRange(row))
          => LET job == m_jobs[row + 1]
             IN  IF job.status # STATUS_CONFIGURED \/ job.trackLayout = <<>>
                 THEN /\ m_layoutClipboard' = m_layoutClipboard
                      /\ last'.log = << [kind |-> "cannotCopy"] >>
                 ELSE /\ Len(m_layoutClipboard') = 1
                      /\ m_layoutClipboard'[1].trackLayout = job.trackLayout
                      /\ m_layoutClipboard'[1].attachmentSources = job.attachmentSources
      ]_vars

\* A copy from a job without a layout was refused with a warning while the
\* clipboard held a layout, which it still holds.
C10_Witness ==
    /\ last.op = "copyLayout"
    /\ last.log = << [kind |-> "cannotCopy"] >>
    /\ m_layoutClipboard # <<>>
    /\ m_layoutClipboard[1].trackLayout # <<>>

\* C11: with a copied layout in the clipboard, pasteLayout sets the layout and
\* the attachment sources of every selected in-range job to the clipboard's,
\* sets its status to Configured whatever configuration it had, leaves its
\* name and sources and every job that is not selected as they were, leaves
\* the clipboard as it was, and logs the number of jobs pasted onto.
C11_PasteOverwritesTargets ==
    [][\A sel \in SUBSET RowInputs :
          ( /\ PasteLayout(sel)
            /\ m_layoutClipboard # <<>>
            /\ m_layoutClipboard[1].trackLayout # <<>> )
          => LET clip == m_layoutClipboard[1]
                 targets == { r \in sel : r >= 0 /\ r < Len(m_jobs) }
             IN  /\ Len(m_jobs') = Len(m_jobs)
                 /\ \A i \in 1..Len(m_jobs) :
                       IF (i - 1) \in targets
                       THEN /\ m_jobs'[i].trackLayout = clip.trackLayout
                            /\ m_jobs'[i].attachmentSources = clip.attachmentSources
                            /\ m_jobs'[i].status = STATUS_CONFIGURED
                            /\ m_jobs'[i].name = m_jobs[i].name
                            /\ m_jobs'[i].sources = m_jobs[i].sources
                       ELSE m_jobs'[i] = m_jobs[i]
                 /\ m_layoutClipboard' = m_layoutClipboard
                 /\ targets # {}
                    => last'.log = << [kind |-> "pasted", count |-> Cardinality(targets)] >>
      ]_vars

\* The layout of the job that was new has been pasted onto both jobs of the
\* queue: the job that had another configuration holds it too.
C11_Witness ==
    /\ last.op = "pasteLayout"
    /\ last.log = << [kind |-> "pasted", count |-> 2] >>
    /\ Len(m_jobs) = 2
    /\ m_layoutClipboard # <<>>
    /\ m_layoutClipboard[1].sources = MapB
    /\ \A i \in 1..2 :
          /\ m_jobs[i].trackLayout = m_layoutClipboard[1].trackLayout
          /\ m_jobs[i].status = STATUS_CONFIGURED
    /\ \E i \in 1..2 : m_jobs[i].sources = MapA

\* C12: layouts are independent copies: while the configuration dialog of one
\* job is open and when it is accepted, no other job of the queue changes and
\* the clipboard keeps its value, also when those hold the layout the
\* configured job had.
C12_LayoutsIndependent ==
    [][ dlg.open
        => /\ m_layoutClipboard' = m_layoutClipboard
           /\ Len(m_jobs') = Len(m_jobs)
           /\ \A i \in 1..Len(m_jobs) : i # dlg.row + 1 => m_jobs'[i] = m_jobs[i]
      ]_vars

\* The job copied from has been configured again with another layout, after
\* its layout was pasted onto the other job: that job and the clipboard still
\* hold the copied layout.
C12_Witness ==
    /\ last.op = "accept"
    /\ m_layoutClipboard # <<>>
    /\ \E i, j \in 1..Len(m_jobs) :
          /\ i # j
          /\ m_jobs[i].sources # m_layoutClipboard[1].sources
          /\ m_jobs[i].trackLayout = m_layoutClipboard[1].trackLayout
          /\ m_jobs[j].sources = m_layoutClipboard[1].sources
          /\ m_jobs[j].trackLayout # m_layoutClipboard[1].trackLayout
          /\ m_jobs[j].trackLayout # <<>>

\* C13: with an empty clipboard, pasteLayout right after a copyLayout that was
\* refused leaves every job of the queue as it was, for every selection.
C13_PasteAfterRefusedCopy ==
    [][\A sel \in SUBSET RowInputs :
          ( /\ PasteLayout(sel)
            /\ last.op = "copyLayout"
            /\ last.log = << [kind |-> "cannotCopy"] >>
            /\ m_layoutClipboard = <<>> )
          => m_jobs' = m_jobs /\ m_layoutClipboard' = <<>>
      ]_vars

\* pasteLayout has run on a queue of two jobs with an empty clipboard and has
\* logged nothing; both jobs still need configuration.
C13_Witness ==
    /\ last.op = "pasteLayout"
    /\ last.log = <<>>
    /\ m_layoutClipboard = <<>>
    /\ Len(m_jobs) = 2
    /\ \A i \in 1..2 : m_jobs[i].status = STATUS_NEEDS /\ m_jobs[i].trackLayout = <<>>

\* The lines of a kind in a log.
LinesOf(log, kind) == SelectSeq(log, LAMBDA e : e.kind = kind)

\* C14: with the bridge available, every job of the batch is handled exactly
\* once, in queue order, whatever the earlier jobs returned: an iteration
\* begins for job 0, 1, ... in turn, a job without "Source 1" is skipped and
\* gets no call of runJob, every other job gets exactly one, and the batch
\* ends only when an iteration has begun for all of them.
C14_EveryJobHandledOnce ==
    (bridge /\ batch.pc # "idle" /\ batch.jobs # <<>>)
    => LET headers == LinesOf(batch.log, "header")
           skips == LinesOf(batch.log, "missingSource1")
       IN  /\ batch.jobs = GetFinalJobs(m_jobs)
           /\ Len(headers) <= Len(batch.jobs)
           /\ \A n \in 1..Len(headers) : headers[n].index = n - 1
           /\ \A n \in 1..Len(headers) :
                 LET nCalls == Cardinality({ c \in 1..Len(batch.calls) :
                                               batch.calls[c].index = n - 1 })
                     nSkips == Cardinality({ c \in 1..Len(skips) : skips[c].index = n - 1 })
                 IN  IF "Source 1" \in DOMAIN batch.jobs[n].sources
                     THEN nCalls = 1 /\ nSkips = 0
                     ELSE nCalls = 0 /\ nSkips = 1
           /\ \A c \in 1..Len(batch.calls) : \A d \in 1..Len(batch.calls) :
                 c < d => batch.calls[c].index < batch.calls[d].index
           /\ batch.pc = "done" => Len(headers) = Len(batch.jobs)

\* A batch of three jobs has ended: the call for the first job failed, the
\* second job was skipped, the call for the third succeeded.
C14_Witness ==
    /\ bridge
    /\ batch.pc = "done"
    /\ Len(batch.jobs) = 3
    /\ batch.results = << [index |-> 0, success |-> FALSE],
                          [index |-> 2, success |-> TRUE] >>
    /\ Len(LinesOf(batch.log, "missingSource1")) = 1

\* C15: the iteration for a job without "Source 1" logs an error, adds one to
\* failedCount, calls neither runJob nor cleanupTemp, records no work
\* directory, and leaves the loop at the next job.
C15_MissingSource1Skipped ==
    [][ (BeginJob /\ "Source 1" \notin DOMAIN batch.jobs[batch.i + 1].sources)
        => /\ batch'.failedCount = batch.failedCount + 1
           /\ batch'.completedCount = batch.completedCount
           /\ Len(batch'.log) = Len(batch.log) + 2
           /\ SubSeq(batch'.log, 1, Len(batch.log)) = batch.log
           /\ batch'.log[Len(batch'.log)] = [kind |-> "missingSource1", index |-> batch.i]
           /\ batch'.calls = batch.calls
           /\ batch'.events = batch.events
           /\ batch'.results = batch.results
           /\ batch'.workDirs = batch.workDirs
           /\ batch'.cleaned = batch.cleaned
           /\ batch'.jobs = batch.jobs
           /\ batch'.pc = "loop"
           /\ batch'.i = batch.i + 1
      ]_vars

\* A batch whose first job has no "Source 1" has ended: the one call and the
\* one work directory are those of the second job, and the first job counts
\* as failed.
C15_Witness ==
    /\ batch.pc = "done"
    /\ Len(batch.jobs) = 2
    /\ "Source 1" \notin DOMAIN batch.jobs[1].sources
    /\ "Source 1" \in DOMAIN batch.jobs[2].sources
    /\ Len(batch.calls) = 1
    /\ batch.calls[1].index = 1
    /\ batch.workDirs = << WorkDir(1) >>
    /\ batch.results[1].success
    /\ batch.failedCount = 1

\* C16: without the bridge, a batch of any number of jobs ends at once with
\* exactly one error line, both counts at zero, no call of runJob, no work
\* directory and no call of cleanupTemp.
C16_UnavailableAborts ==
    ~bridge
    => /\ batch.completedCount = 0
       /\ batch.failedCount = 0
       /\ batch.calls = <<>>
       /\ batch.results = <<>>
       /\ batch.workDirs = <<>>
       /\ batch.cleaned = <<>>
       /\ (batch.pc # "idle" /\ GetFinalJobs(m_jobs) # <<>>)
          => /\ batch.pc = "done"
             /\ batch.jobs = GetFinalJobs(m_jobs)
             /\ Len(LinesOf(batch.log, "bridgeUnavailable")) = 1
             /\ \A n \in 1..Len(batch.log) :
                   batch.log[n].kind \in {"starting", "bridgeUnavailable"}

\* A batch of three configured jobs was started without the bridge and has
\* ended.
C16_Witness ==
    /\ ~bridge
    /\ batch.pc = "done"
    /\ Len(batch.jobs) = 3
    /\ Len(GetFinalJobs(m_jobs)) = 3

\* C17: with the bridge available, completedCount is the number of calls of
\* runJob that returned success, failedCount the number that returned failure
\* plus the number of jobs skipped for a missing "Source 1"; at the end of
\* the batch the two add up to the number of jobs and the last line logged is
\* the summary with these two counts.
C17_CountsAddUp ==
    (bridge /\ batch.pc # "idle" /\ batch.jobs # <<>>)
    => LET ok == Cardinality({ n \in 1..Len(batch.results) : batch.results[n].success })
           ko == Cardinality({ n \in 1..Len(batch.results) : ~batch.results[n].success })
           skipped == Len(LinesOf(batch.log, "missingSource1"))
       IN  /\ batch.completedCount = ok
           /\ batch.failedCount = ko + skipped
           /\ batch.completedCount + batch.failedCount = batch.i
           /\ batch.pc = "done"
              => /\ batch.completedCount + batch.failedCount = Len(batch.jobs)
                 /\ batch.log[Len(batch.log)]
                      = [kind |-> "summary", completed |-> ok, failed |-> ko + skipped]
                 /\ Len(LinesOf(batch.log, "summary")) = 1
           /\ batch.pc # "done" => LinesOf(batch.log, "summary") = <<>>

\* A batch of three jobs has ended with one job completed and two failed,
\* one of them skipped.
C17_Witness ==
    /\ bridge
    /\ batch.pc = "done"
    /\ batch.completedCount = 1
    /\ batch.failedCount = 2
    /\ Len(batch.results) = 2
    /\ batch.log[Len(batch.log)] = [kind |-> "summary", completed |-> 1, failed |-> 2]

\* C18: the calls of runJob are strictly sequential: calls and returns
\* alternate, every return is that of the call before it, the jobs called
\* follow the queue order, and at most one call is outstanding.
C18_Sequential ==
    LET ev == batch.events
    IN  /\ \A n \in 1..Len(ev) :
              IF n % 2 = 1
              THEN /\ ev[n].ev = "call"
                   /\ n > 2 => ev[n].index > ev[n - 2].index
              ELSE /\ ev[n].ev = "return"
                   /\ ev[n].index = ev[n - 1].index
        /\ Len(batch.calls) - Len(batch.results) \in {0, 1}
        /\ Len(batch.calls) - Len(batch.results) = 1 <=> batch.pc = "running"

\* The call for a second job is outstanding; the first call has returned.
C18_Witness ==
    /\ batch.pc = "running"
    /\ Len(batch.events) = 3
    /\ Len(batch.calls) = 2
    /\ Len(batch.results) = 1

\* C19: cleanupTemp is called exactly once with the work directory of every
\* job for which runJob was called, after that call returned and whatever it
\* returned, and with no other directory.
C19_CleanupOncePerAttempt ==
    /\ batch.cleaned # <<>> => Len(batch.results) = Len(batch.calls)
    /\ (bridge /\ batch.pc = "done")
       => /\ \A c \in 1..Len(batch.calls) :
                Cardinality({ n \in 1..Len(batch.cleaned) :
                                batch.cleaned[n] = WorkDir(batch.calls[c].index) }) = 1
          /\ \A n \in 1..Len(batch.cleaned) :
                \E c \in 1..Len(batch.calls) :
                   batch.cleaned[n] = WorkDir(batch.calls[c].index)

\* A batch has ended after a call that failed and a call that succeeded and
\* a job that was skipped: two directories were cleaned up.
C19_Witness ==
    /\ batch.pc = "done"
    /\ Len(batch.jobs) = 3
    /\ Len(batch.cleaned) = 2
    /\ \E n \in 1..2 : batch.results[n].success
    /\ \E n \in 1..2 : ~batch.results[n].success

\* C20: the source paths handed to runJob for a job are the paths of "Source
\* 1", "Source 2", ... as far as they are present without a gap, at most up
\* to "Source 4", in that order.
C20_ContiguousSources ==
    \A c \in 1..Len(batch.calls) :
        LET src == batch.jobs[batch.calls[c].index + 1].sources
            runs == { k \in 0..MaxSourceIndex :
                        \A j \in 1..k : SourceKeyOf(j) \in DOMAIN src }
            n == CHOOSE k \in runs : \A m \in runs : m <= k
        IN  batch.calls[c].sourcePaths = [j \in 1..n |-> src[SourceKeyOf(j)]]

\* runJob was called for a job with "Source 1" and "Source 3" with one path,
\* and for a job with five sources with four.
C20_Witness ==
    /\ \E c \in 1..Len(batch.calls) :
          /\ batch.jobs[batch.calls[c].index + 1].sources = MapGap
          /\ Len(batch.calls[c].sourcePaths) = 1
    /\ \E c \in 1..Len(batch.calls) :
          /\ batch.jobs[batch.calls[c].index + 1].sources = MapFive
          /\ Len(batch.calls[c].sourcePaths) = 4

\* C22: a move in the final list changes nothing at the boundaries of the
\* list and otherwise swaps the track with its neighbour: the layout read
\* back after the move holds the same tracks with the same settings as
\* before, each as often as before.
C22_MovePreservesTracks ==
    [][\A row \in 0..(cap.tracks - 1), d \in Directions :
          MoveTrack(row, d)
          => LET before == GetTracks(dlg.items)
                 after == GetTracks(dlg'.items)
             IN  /\ Len(after) = Len(before)
                 /\ \A n \in 1..Len(before) : Count(before[n], after) = Count(before[n], before)
                 /\ (row + d < 0 \/ row + d >= Len(dlg.items)) => after = before
      ]_vars

\* C24: in every reachable state the layout of a job holds at most one Video
\* track.
C24_AtMostOneVideo ==
    \A i \in 1..Len(m_jobs) :
        Cardinality({ n \in 1..Len(m_jobs[i].trackLayout) :
                        m_jobs[i].trackLayout[n].type = "Video" }) <= 1

\* C23: a double click on an enabled track of a source list appends exactly
\* one FinalTrack at the end of the final list; its isDefault and isForced are
\* those of the source track, and it carries no custom name and no custom
\* language, so that its serialized config has the keys is_default and
\* is_forced only.
C23_FreshTrackHasNoCustom ==
    [][\A k \in KeySet, index \in ItemRows :
          ( /\ DoubleClick(k, index)
            /\ dlg.sourceLists[k][index + 1].enabled )
          => LET src == dlg.sourceLists[k][index + 1].track
                 after == GetTracks(dlg'.items)
                 added == after[Len(after)]
             IN  /\ after = Append(GetTracks(dlg.items), added)
                 /\ added.isDefault = src.isDefault
                 /\ added.isForced = src.isForced
                 /\ DOMAIN ConfigObj(added) = {"is_default", "is_forced"}
      ]_vars

\* The job a call of runJob was made for.
JobOfCall(c) == batch.jobs[c.index + 1]

\* C27: the layoutJson handed to runJob is empty exactly when the job's final
\* track list is empty; a layout with tracks is always serialized, and its
\* document has attachment_sources, the job's attachment sources.
C27_PayloadEmptyIffNoTracks ==
    \A n \in 1..Len(batch.calls) :
        LET c == batch.calls[n]
        IN  /\ (c.layoutJson = <<>>) <=> (JobOfCall(c).trackLayout = <<>>)
            /\ c.layoutJson # <<>> =>
                  /\ Len(c.layoutJson) = 1
                  /\ "attachment_sources" \in DOMAIN c.layoutJson[1]
                  /\ c.layoutJson[1].attachment_sources = JobOfCall(c).attachmentSources

C27_Witness ==
    /\ \E n \in 1..Len(batch.calls) :
          /\ batch.calls[n].layoutJson = <<>>
          /\ JobOfCall(batch.calls[n]).status = STATUS_CONFIGURED
    /\ \E n \in 1..Len(batch.calls) :
          /\ batch.calls[n].layoutJson # <<>>
          /\ batch.calls[n].layoutJson[1].attachment_sources # <<>>
    /\ \E n \in 1..Len(batch.calls) :
          /\ batch.calls[n].layoutJson # <<>>
          /\ batch.calls[n].layoutJson[1].attachment_sources = <<>>

\* C28: final_tracks of a serialized layout has one entry per track of the
\* job's layout, in the layout's order, with the track's id, its source key
\* and its type as "video", "audio" or "subtitles"; the entry's config has
\* custom_name exactly when the track's name is not empty, and custom_lang
\* exactly when the track's language is neither empty nor "und".
C28_FinalTracksEntries ==
    \A n \in 1..Len(batch.calls) :
        LET c == batch.calls[n]
            layout == JobOfCall(c).trackLayout
        IN  c.layoutJson # <<>> =>
              LET entries == c.layoutJson[1].final_tracks
              IN  /\ Len(entries) = Len(layout)
                  /\ \A t \in 1..Len(layout) :
                        /\ entries[t].track_id = layout[t].id
                        /\ entries[t].source_key = layout[t].sourceKey
                        /\ \/ layout[t].type = "Video" /\ entries[t].track_type = STR_video
                           \/ layout[t].type = "Audio" /\ entries[t].track_type = STR_audio
                           \/ layout[t].type = "Subtitle" /\ entries[t].track_type = STR_subtitles
                        /\ ("custom_name" \in DOMAIN entries[t].config) <=> (layout[t].name # "")
                        /\ "custom_name" \in DOMAIN entries[t].config
                              => entries[t].config.custom_name = layout[t].name
                        /\ ("custom_lang" \in DOMAIN entries[t].config)
                              <=> (layout[t].language \notin {"", "und"})
                        /\ "custom_lang" \in DOMAIN entries[t].config
                              => entries[t].config.custom_lang = layout[t].language

C28_Witness ==
    \E n \in 1..Len(batch.calls) :
        /\ batch.calls[n].layoutJson # <<>>
        /\ LET entries == batch.calls[n].layoutJson[1].final_tracks
               layout == JobOfCall(batch.calls[n]).trackLayout
           IN  /\ Len(entries) = 3
               /\ { layout[t].type : t \in 1..3 } = {"Video", "Audio", "Subtitle"}
               /\ \E t \in 1..3 : layout[t].language = "und"
                                  /\ DOMAIN entries[t].config = {"is_default", "is_forced"}
               /\ \E t \in 1..3 : layout[t].language = ""
                                  /\ DOMAIN entries[t].config = {"is_default", "is_forced", "custom_name"}
               /\ \E t \in 1..3 :
                     DOMAIN entries[t].config
                       = {"is_default", "is_forced", "custom_name", "custom_lang"}

\* C21: while a call of runJob is outstanding and the engine has put a
\* message into the queue, the poll that forwards it can run: the message can
\* reach the log before the call returns.
C21_ForwardedDuringCall ==
    (batch.pc = "running" /\ batch.pending # <<>>) => ENABLED PollTimer

TraceOf(ev) == SelectSeq(batch.trace, LAMBDA e : e.ev = ev)

\* C30 as claimed: after the call of runJob for a job, cleanupTemp is called
\* for that job's work directory before the next call of runJob and before
\* the summary.
C30_CleanupBeforeNextCall ==
    \A p \in 1..Len(batch.trace) :
        batch.trace[p].ev = "call" =>
            \A q \in (p + 1)..Len(batch.trace) :
                batch.trace[q].ev \in {"call", "summary"} =>
                    \E c \in (p + 1)..(q - 1) :
                        /\ batch.trace[c].ev = "cleanup"
                        /\ batch.trace[c].dir = WorkDir(batch.trace[p].index)

\* C30: cleanupTemp is called for the work directory of each job runJob was
\* called for only once every call of runJob has returned and the summary
\* has been logged, in the order of the calls of runJob.
C30_CleanupAfterSummary ==
    /\ \A c \in 1..Len(batch.trace) :
          batch.trace[c].ev = "cleanup" =>
              \E s \in 1..(c - 1) :
                  /\ batch.trace[s].ev = "summary"
                  /\ \A p \in 1..Len(batch.trace) :
                        batch.trace[p].ev \in {"call", "return"} => p < s
    /\ batch.pc # "done" => TraceOf("cleanup") = <<>>
    /\ batch.pc = "done" =>
          /\ Len(TraceOf("cleanup")) = Len(TraceOf("call"))
          /\ \A n \in 1..Len(TraceOf("call")) :
                TraceOf("cleanup")[n].dir = WorkDir(TraceOf("call")[n].index)

C30_Witness ==
    /\ batch.pc = "done"
    /\ Len(TraceOf("call")) >= 2
    /\ \E n, m \in 1..Len(batch.results) :
          batch.results[n].success /\ ~batch.results[m].success
    /\ batch.trace[Len(batch.trace)].ev = "cleanup"

\* C25: every job in the queue, whether it came from the inputs of the main
\* window or from the add-job dialog (typed paths, dropped paths, discovery),
\* has a "Source 1" entry.
C25_EveryJobHasSource1 ==
    \A n \in 1..Len(m_jobs) : "Source 1" \in DOMAIN m_jobs[n].sources

\* C26: in the configuration dialog every source has at least one track, and
\* a source whose scan failed, or any source when the inspection service is
\* not available, has exactly the two placeholders: a Video track and an
\* Audio track, both described as "scan unavailable".
C26_FailedScanGivesPlaceholders ==
    dlg.open =>
        \A k \in DOMAIN dlg.sourceLists :
            LET list == dlg.sourceLists[k]
                path == m_jobs[dlg.row + 1].sources[k]
            IN  /\ Len(list) >= 1
                /\ (~bridge \/ ScanFile(path) = "fail") =>
                      /\ Len(list) = 2
                      /\ TrackTypeOf(list[1].track.type) = "Video"
                      /\ list[1].track.description = "Video track (scan unavailable)"
                      /\ TrackTypeOf(list[2].track.type) = "Audio"
                      /\ list[2].track.description = "Audio track (scan unavailable)"

C26_Witness ==
    /\ dlg.open
    /\ bridge
    /\ last.op = "configureJobAtRow"
    /\ \E k \in DOMAIN dlg.sourceLists :
          /\ ScanFile(m_jobs[dlg.row + 1].sources[k]) = "fail"
          /\ Len(dlg.sourceLists[k]) = 2
    /\ \E k \in DOMAIN dlg.sourceLists :
          /\ ScanFile(m_jobs[dlg.row + 1].sources[k]) = "ok"
          /\ dlg.sourceLists[k][1].track.description # "Video track (scan unavailable)"

\* C36: in every reachable state a job whose track layout is not empty has
\* status Configured, so that copyLayout, which looks at the layout only,
\* never puts a job into the clipboard whose status is not Configured.
C36_LayoutImpliesConfigured ==
    /\ \A i \in 1..Len(m_jobs) :
          m_jobs[i].trackLayout # <<>> => m_jobs[i].status = STATUS_CONFIGURED
    /\ \A n \in 1..Len(m_layoutClipboard) :
          /\ m_layoutClipboard[n].trackLayout # <<>>
          /\ m_layoutClipboard[n].status = STATUS_CONFIGURED

C36_Witness ==
    /\ last.op = "copyLayout"
    /\ last.log = << [kind |-> "copied"] >>
    /\ m_layoutClipboard # <<>>
    /\ \E i \in 1..Len(m_jobs) :
          m_jobs[i].trackLayout = <<>> /\ m_jobs[i].status = STATUS_NEEDS
    /\ \E i \in 1..Len(m_jobs) : m_jobs[i].trackLayout = m_layoutClipboard[1].trackLayout

\* C38: a configuration that is opened and cancelled, and a request to
\* configure a row out of range, leave every job of the queue (layout,
\* attachment sources, status) and the clipboard as they were: no step from
\* the opening of the dialog to its cancellation changes them, whatever was
\* done in the dialog.
C38_CancelChangesNothing ==
    [][ ( \/ dlg.open /\ last'.op # "accept"
          \/ \E row \in RowInputs : ConfigureJobAtRow(row) )
        => m_jobs' = m_jobs /\ m_layoutClipboard' = m_layoutClipboard ]_vars

C38_Witness ==
    /\ last.op = "reject"
    /\ ~dlg.open
    /\ nConfigure >= 1
    /\ \E i \in 1..Len(m_jobs) :
          m_jobs[i].status = STATUS_NEEDS /\ m_jobs[i].trackLayout = <<>>

\* The jobs of a queue by what identifies them: name and sources.
Identities(v) == [ i \in 1..Len(v) |-> [name |-> v[i].name, sources |-> v[i].sources] ]

\* C37: the queue's contents are conserved.  After addJobs every job is in
\* the queue as often as before plus as often as it was added; after
\* moveJobs as often as before; removeSelectedJobs leaves every job that is
\* not selected; copyLayout, pasteLayout and the
\* configuration of a job leave the length of the queue and the order of its
\* jobs as they were.
C37_QueueConserved ==
    [][ /\ last'.op = "addJobs" => \A jobs \in JobVectors(MaxAdd) :
              AddJobs(jobs) =>
                  \A j \in JobInputs \cup { m_jobs[i] : i \in 1..Len(m_jobs) } :
                      Count(j, m_jobs') = Count(j, m_jobs) + Count(j, jobs)
        /\ last'.op = "moveJobs" => \A sel \in SUBSET RowInputs, d \in Directions :
              MoveJobs(sel, d) =>
                  /\ Len(m_jobs') = Len(m_jobs)
                  /\ \A i \in 1..Len(m_jobs) :
                        Count(m_jobs[i], m_jobs') = Count(m_jobs[i], m_jobs)
        /\ last'.op = "removeSelectedJobs" => \A sel \in SUBSET RowInputs :
              RemoveSelectedJobs(sel) =>
                  \A i \in 1..Len(m_jobs) :
                      Count(m_jobs[i], m_jobs')
                        >= Cardinality({ k \in 1..Len(m_jobs) :
                                           m_jobs[k] = m_jobs[i] /\ (k - 1) \notin sel })
        /\ last'.op \in {"copyLayout", "pasteLayout", "configureJobAtRow", "accept", "reject"}
              => Identities(m_jobs') = Identities(m_jobs)
      ]_vars

C37_Witness ==
    /\ last.op = "moveJobs"
    /\ Len(m_jobs) = 2
    /\ m_jobs[1] # m_jobs[2]
    /\ ~NameLess(m_jobs[1], m_jobs[2])
    /\ NameLess(m_jobs[2], m_jobs[1])

\* C35: in every reachable state every source key the layout of a job refers
\* to is a key of the job's own sources: each attachment source, and the
\* sourceKey of each track unless it is "External".
C35_LayoutKeysBelongToJob ==
    \A i \in 1..Len(m_jobs) :
        /\ \A n \in 1..Len(m_jobs[i].attachmentSources) :
              m_jobs[i].attachmentSources[n] \in DOMAIN m_jobs[i].sources
        /\ \A n \in 1..Len(m_jobs[i].trackLayout) :
              \/ m_jobs[i].trackLayout[n].sourceKey = "External"
              \/ m_jobs[i].trackLayout[n].sourceKey \in DOMAIN m_jobs[i].sources

\* C33: the external subtitle tracks of a configuration session have the ids
\* 0, 1, 2, ... in the order they were added, so no two of them share an id;
\* they are not typed Video and not blocked, and a track taken from them into
\* the final list has the sourceKey "External".
C33_ExternalTracksNumbered ==
    [][ /\ \A files \in FileVectors :
              AddExternalSubtitles(files) =>
                  \A n \in 1..Len(dlg'.externalList) :
                      /\ dlg'.externalList[n].track.id = n - 1
                      /\ dlg'.externalList[n].enabled
                      /\ TrackTypeOf(dlg'.externalList[n].track.type) # "Video"
        /\ \A index \in 0..(MaxExternal - 1) :
              DoubleClickExternal(index) =>
                  LET after == GetTracks(dlg'.items)
                  IN  /\ Len(after) = Len(GetTracks(dlg.items)) + 1
                      /\ after[Len(after)].sourceKey = "External"
                      /\ after[Len(after)].type = "Subtitle"
      ]_vars

\* C32: in a configuration session every source of the job is scanned at
\* most once, and for every source whose scan failed, by an error of the
\* scan or because the inspection service is not available, exactly one
\* warning is logged when the fallback is taken; nothing is scanned again
\* while the session lasts.
C32_FailedScanReportedOnce ==
    [][ /\ \A row \in RowInputs :
              (ConfigureJobAtRow(row) /\ InRange(row)) =>
                  \A k \in DOMAIN m_jobs[row + 1].sources :
                      /\ Count(k, dlg'.scans) <= 1
                      /\ (~bridge \/ ScanFile(m_jobs[row + 1].sources[k]) = "fail")
                            => Count([kind |-> "scanFailed", source |-> k], last'.log) = 1
        /\ (dlg.open /\ dlg'.open) => dlg'.scans = dlg.scans
      ]_vars

\* The paths of the inputs that are not empty or white space, in the order
\* of the inputs.
EnteredPaths(fields) ==
    LET filled == SelectSeq(fields, LAMBDA f : f.path # <<>>)
    IN  [ n \in 1..Len(filled) |-> filled[n].path[1] ]

\* C34: when discovery answers no job, or there is no bridge to ask, the
\* add-job dialog makes exactly one job of the k paths entered: the queue
\* gets one job more, whose sources are "Source 1" to "Source k" with the
\* paths in the order of the inputs.
C34_FallbackSingleJob ==
    [][\A origin \in {"onAddJobsClicked", "dropEvent"}, fields \in FieldVectors :
          ( /\ AddJobDialogAccepted(origin, fields, <<>>)
            /\ EnteredPaths(fields) # <<>> )
          => LET paths == EnteredPaths(fields)
                 keys == { <<"Source 1">>, <<"Source 1", "Source 2">> }
             IN  /\ Len(m_jobs') = Len(m_jobs) + 1
                 /\ \E n \in 1..Len(m_jobs') :
                       LET job == m_jobs'[n]
                       IN  /\ Count(job, m_jobs') = Count(job, m_jobs) + 1
                           /\ \A i \in 1..Len(m_jobs) :
                                 m_jobs[i] # job
                                   => Count(m_jobs[i], m_jobs') = Count(m_jobs[i], m_jobs)
                           /\ \E ks \in keys :
                                 /\ Len(ks) = Len(paths)
                                 /\ DOMAIN job.sources = { ks[i] : i \in 1..Len(ks) }
                                 /\ \A i \in 1..Len(ks) : job.sources[ks[i]] = paths[i]
      ]_vars

C34_Witness ==
    /\ last.op \in {"onAddJobsClicked", "dropEvent"}
    /\ last.log = <<>>
    /\ ~bridge
    /\ \E n \in 1..Len(m_jobs) :
          /\ DOMAIN m_jobs[n].sources = {"Source 1", "Source 2"}
          /\ m_jobs[n].sources["Source 1"] = Path("/good", <<97>>)
          /\ m_jobs[n].sources["Source 2"] = Path("/good", <<97, 50>>)
    /\ \E n \in 1..Len(m_jobs) :
          /\ DOMAIN m_jobs[n].sources = {"Source 1"}
          /\ m_jobs[n].sources["Source 1"] = Path("/good", <<97, 50>>)

\* C31: with the bridge available and every call of runJob returning, a
\* batch that has begun ends: the summary is logged, once and only when
\* every job has been handled, and the status is then "Ready".
C31_BatchTerminates ==
    /\ [](Len(LinesOf(batch.log, "summary")) <= 1)
    /\ [](LinesOf(batch.log, "summary") # <<>> => batch.i >= Len(batch.jobs))
    /\ (bridge /\ batch.pc = "loop")
          ~> ( /\ batch.pc = "done"
               /\ Len(LinesOf(batch.log, "summary")) = 1
               /\ batch.log[Len(batch.log)].kind = "summary"
               /\ batch.view.status = "Ready" )

C31_Witness ==
    /\ bridge
    /\ batch.pc = "done"
    /\ Len(batch.jobs) >= 2
    /\ Len(batch.calls) >= 1
    /\ Len(LinesOf(batch.log, "summary")) = 1
    /\ batch.view.status = "Ready"

====
